---- MODULE Spec2Model ----
(***************************************************************************)
(* Model of the rules engine of shadow-goose-backend                       *)
(* (src/app/rules_engine.py): the rule store, the condition evaluator,     *)
(* the action executor, the rule processor, the default catalogue and the  *)
(* rules file, and of the endpoints of src/app/main.py that call it; of    *)
(* the grant service (src/app/grants.py): applications, answers and the    *)
(* catalogue search; of the migration strategy and the data source switch  *)
(* (src/app/migration_strategy.py); and of the rate limiter of the API     *)
(* authenticator (src/app/data_quality.py).                                *)
(*                                                                         *)
(* Python values are tagged records (t is the Python type), so that        *)
(* values of different Python types can be compared the way Python         *)
(* compares them.  A call either returns a value or raises: every          *)
(* operator that models a Python function yields an outcome record         *)
(* [raised, exc, msg, value].                                              *)
(***************************************************************************)
EXTENDS Integers, Sequences, FiniteSets, TLC

VARIABLES
    rules,            \* RulesEngine.rules: the rule store, a list of rule dicts
    action_handlers,  \* RulesEngine.action_handlers: the registered action types
    call,             \* the engine method being called and its arguments
    ret,              \* the outcome of that call, once call.done
    added,            \* history: the rules add_rule accepted, in call order
    file,             \* the rules file on disk: absent, or the JSON document in it
    now,              \* the clock, in seconds
    \* grants.py
    SAMPLE_GRANTS,    \* the grant catalogue, built when the module is loaded
    applications_db,  \* the list of grant applications
    answers_db,       \* the list of answers, every version of each
    cache,            \* grant_service._cache with _cache_timestamps
    performance_metrics,  \* grant_service._performance_metrics
    \* migration_strategy.py
    backup_data,      \* migration_strategy.backup_data
    rollback_data,    \* migration_strategy.rollback_data
    current_source,   \* data_source_switch.current_source
    fallback_source,  \* data_source_switch.fallback_source
    switch_history,   \* data_source_switch.switch_history
    \* data_quality.py
    api_keys,         \* data_authenticator.api_keys
    rate_limit_trackers   \* data_authenticator.rate_limit_trackers

engine_vars == <<rules, action_handlers, added, file>>
grants_vars ==
    <<SAMPLE_GRANTS, applications_db, answers_db, cache, performance_metrics>>
migration_vars ==
    <<backup_data, rollback_data, current_source, fallback_source, switch_history>>
authenticator_vars == <<api_keys, rate_limit_trackers>>

\* What the rules engine does not touch.
outside_engine == <<now, grants_vars, migration_vars, authenticator_vars>>

vars == <<engine_vars, call, ret, now, grants_vars, migration_vars, authenticator_vars>>

\* A module that is not loaded has no state; its variables hold these
\* values and no action changes them.
EngineNotLoaded ==
    /\ rules = <<>>
    /\ action_handlers = {}
    /\ added = <<>>
    /\ file = [exists |-> FALSE]
GrantsNotLoaded ==
    /\ SAMPLE_GRANTS = <<>>
    /\ applications_db = <<>>
    /\ answers_db = <<>>
    /\ cache = <<>>
    /\ performance_metrics = <<>>
MigrationNotLoaded ==
    /\ backup_data = <<>>
    /\ rollback_data = <<>>
    /\ current_source = "None"
    /\ fallback_source = "None"
    /\ switch_history = <<>>
AuthenticatorNotLoaded == api_keys = <<>> /\ rate_limit_trackers = <<>>

(***************************************************************************)
(* Bounds of the model.                                                    *)
(***************************************************************************)
MaxRules == 3      \* rules in the store
MaxConds == 2      \* conditions in a directly evaluated condition list
MaxActions == 2    \* actions in a directly executed action list
MaxCreated == 1    \* rules created through the endpoint on the seeded engine
MaxAnswers == 3    \* answers in the answer store
MaxTime == 2       \* seconds the clock runs while applications are worked on
MaxSearches == 2   \* search requests to the grant service
MaxCached == 1     \* entries of the grant service's cache
MaxFailing == 2    \* migration steps that would fail in one migration
MaxSwitches == 3   \* entries of the data source switch's history
MaxCalls == 4      \* calls made to the authenticator
MaxPerMinute == 2  \* requests_per_minute of the configured rate limits
MaxPerHour == 3    \* requests_per_hour of the configured rate limits

(***************************************************************************)
(* Python values.                                                          *)
(***************************************************************************)
PyNone == [t |-> "none", n |-> 0, s |-> "", items |-> <<>>]
PyBool(b) == [t |-> "bool", n |-> IF b THEN 1 ELSE 0, s |-> "", items |-> <<>>]
PyInt(i) == [t |-> "int", n |-> i, s |-> "", items |-> <<>>]
PyStr(str) == [t |-> "str", n |-> 0, s |-> str, items |-> <<>>]
PyList(xs) == [t |-> "list", n |-> 0, s |-> "", items |-> xs]
PyEmptyDict == [t |-> "dict", n |-> 0, s |-> "", items |-> <<>>]
PyDict(m) == [t |-> "dict", n |-> 0, s |-> "", items |-> m]
\* A datetime object, by the number of its day.
PyDatetime(d) == [t |-> "datetime", n |-> d, s |-> "", items |-> <<>>]

\* Outcome of a Python call: a returned value or a raised exception.
\* exc is the exception class and msg is str(exception), where the code uses it.
Return(v) == [raised |-> FALSE, exc |-> "", msg |-> "", value |-> v]
RaiseMsg(e, m) == [raised |-> TRUE, exc |-> e, msg |-> m, value |-> FALSE]
Raise(e) == RaiseMsg(e, "")

\* The characters (code points) of the strings that conditions and contexts
\* of the model compare, search or match.
Chars(str) ==
    CASE str = "" -> <<>>
      [] str = "admin" -> <<97, 100, 109, 105, 110>>
      [] str = "member" -> <<109, 101, 109, 98, 101, 114>>
      [] str = "adm" -> <<97, 100, 109>>
      [] str = "^adm" -> <<94, 97, 100, 109>>
      [] str = "(adm" -> <<40, 97, 100, 109>>
      [] str = "{datetime.now() + timedelta(days=7)}" ->
            <<123, 100, 97, 116, 101, 116, 105, 109, 101, 46, 110, 111, 119, 40, 41,
              32, 43, 32, 116, 105, 109, 101, 100, 101, 108, 116, 97, 40, 100, 97,
              121, 115, 61, 55, 41, 125>>
      [] str = "Film" -> <<70, 105, 108, 109>>
      [] str = "Short Film Fund" ->
            <<83, 104, 111, 114, 116, 32, 70, 105, 108, 109, 32, 70, 117, 110, 100>>
      [] str = "youth" -> <<121, 111, 117, 116, 104>>
      [] str = "Screen" -> <<83, 99, 114, 101, 101, 110>>
      [] str = "GRANT" -> <<71, 82, 65, 78, 84>>
      [] str = "zebra" -> <<122, 101, 98, 114, 97>>
      [] str = "sk-123" -> <<115, 107, 45, 49, 50, 51>>
      [] str = "sk-1234567890" -> <<115, 107, 45, 49, 50, 51, 52, 53, 54, 55, 56, 57, 48>>
      [] str = "Victorian Creative Industries Grant" ->
            <<86, 105, 99, 116, 111, 114, 105, 97, 110, 32, 67, 114, 101, 97,
            116, 105, 118, 101, 32, 73, 110, 100, 117, 115, 116, 114, 105,
            101, 115, 32, 71, 114, 97, 110, 116>>
      [] str = "Supporting creative projects that contribute to Victoria's cultural landscape" ->
            <<83, 117, 112, 112, 111, 114, 116, 105, 110, 103, 32, 99, 114,
            101, 97, 116, 105, 118, 101, 32, 112, 114, 111, 106, 101, 99, 116,
            115, 32, 116, 104, 97, 116, 32, 99, 111, 110, 116, 114, 105, 98,
            117, 116, 101, 32, 116, 111, 32, 86, 105, 99, 116, 111, 114, 105,
            97, 39, 115, 32, 99, 117, 108, 116, 117, 114, 97, 108, 32, 108,
            97, 110, 100, 115, 99, 97, 112, 101>>
      [] str = "Community Impact Fund" ->
            <<67, 111, 109, 109, 117, 110, 105, 116, 121, 32, 73, 109, 112,
            97, 99, 116, 32, 70, 117, 110, 100>>
      [] str = "Supporting community projects that create positive social impact" ->
            <<83, 117, 112, 112, 111, 114, 116, 105, 110, 103, 32, 99, 111,
            109, 109, 117, 110, 105, 116, 121, 32, 112, 114, 111, 106, 101,
            99, 116, 115, 32, 116, 104, 97, 116, 32, 99, 114, 101, 97, 116,
            101, 32, 112, 111, 115, 105, 116, 105, 118, 101, 32, 115, 111, 99,
            105, 97, 108, 32, 105, 109, 112, 97, 99, 116>>
      [] str = "Youth Innovation Grant" ->
            <<89, 111, 117, 116, 104, 32, 73, 110, 110, 111, 118, 97, 116,
            105, 111, 110, 32, 71, 114, 97, 110, 116>>
      [] str = "Supporting innovative projects led by young people" ->
            <<83, 117, 112, 112, 111, 114, 116, 105, 110, 103, 32, 105, 110,
            110, 111, 118, 97, 116, 105, 118, 101, 32, 112, 114, 111, 106,
            101, 99, 116, 115, 32, 108, 101, 100, 32, 98, 121, 32, 121, 111,
            117, 110, 103, 32, 112, 101, 111, 112, 108, 101>>
      [] str = "Screen Australia Documentary Production Fund" ->
            <<83, 99, 114, 101, 101, 110, 32, 65, 117, 115, 116, 114, 97, 108,
            105, 97, 32, 68, 111, 99, 117, 109, 101, 110, 116, 97, 114, 121,
            32, 80, 114, 111, 100, 117, 99, 116, 105, 111, 110, 32, 70, 117,
            110, 100>>
      [] str = "Supporting quality documentary production with cultural value and innovation. Based on real Screen Australia funding program for documentary production with up to $500,000 available." ->
            <<83, 117, 112, 112, 111, 114, 116, 105, 110, 103, 32, 113, 117,
            97, 108, 105, 116, 121, 32, 100, 111, 99, 117, 109, 101, 110, 116,
            97, 114, 121, 32, 112, 114, 111, 100, 117, 99, 116, 105, 111, 110,
            32, 119, 105, 116, 104, 32, 99, 117, 108, 116, 117, 114, 97, 108,
            32, 118, 97, 108, 117, 101, 32, 97, 110, 100, 32, 105, 110, 110,
            111, 118, 97, 116, 105, 111, 110, 46, 32, 66, 97, 115, 101, 100,
            32, 111, 110, 32, 114, 101, 97, 108, 32, 83, 99, 114, 101, 101,
            110, 32, 65, 117, 115, 116, 114, 97, 108, 105, 97, 32, 102, 117,
            110, 100, 105, 110, 103, 32, 112, 114, 111, 103, 114, 97, 109, 32,
            102, 111, 114, 32, 100, 111, 99, 117, 109, 101, 110, 116, 97, 114,
            121, 32, 112, 114, 111, 100, 117, 99, 116, 105, 111, 110, 32, 119,
            105, 116, 104, 32, 117, 112, 32, 116, 111, 32, 36, 53, 48, 48, 44,
            48, 48, 48, 32, 97, 118, 97, 105, 108, 97, 98, 108, 101, 46>>
      [] str = "Screen Australia First Nations Documentary" ->
            <<83, 99, 114, 101, 101, 110, 32, 65, 117, 115, 116, 114, 97, 108,
            105, 97, 32, 70, 105, 114, 115, 116, 32, 78, 97, 116, 105, 111,
            110, 115, 32, 68, 111, 99, 117, 109, 101, 110, 116, 97, 114, 121>>
      [] str = "Supporting First Nations storytelling and documentary content creation. Dedicated funding for First Nations filmmakers and content creators." ->
            <<83, 117, 112, 112, 111, 114, 116, 105, 110, 103, 32, 70, 105,
            114, 115, 116, 32, 78, 97, 116, 105, 111, 110, 115, 32, 115, 116,
            111, 114, 121, 116, 101, 108, 108, 105, 110, 103, 32, 97, 110,
            100, 32, 100, 111, 99, 117, 109, 101, 110, 116, 97, 114, 121, 32,
            99, 111, 110, 116, 101, 110, 116, 32, 99, 114, 101, 97, 116, 105,
            111, 110, 46, 32, 68, 101, 100, 105, 99, 97, 116, 101, 100, 32,
            102, 117, 110, 100, 105, 110, 103, 32, 102, 111, 114, 32, 70, 105,
            114, 115, 116, 32, 78, 97, 116, 105, 111, 110, 115, 32, 102, 105,
            108, 109, 109, 97, 107, 101, 114, 115, 32, 97, 110, 100, 32, 99,
            111, 110, 116, 101, 110, 116, 32, 99, 114, 101, 97, 116, 111, 114,
            115, 46>>
      [] str = "Australia Council for the Arts Project Grants" ->
            <<65, 117, 115, 116, 114, 97, 108, 105, 97, 32, 67, 111, 117, 110,
            99, 105, 108, 32, 102, 111, 114, 32, 116, 104, 101, 32, 65, 114,
            116, 115, 32, 80, 114, 111, 106, 101, 99, 116, 32, 71, 114, 97,
            110, 116, 115>>
      [] str = "Supporting arts projects and creative development across all art forms. Based on real Australia Council funding for arts projects up to $100,000." ->
            <<83, 117, 112, 112, 111, 114, 116, 105, 110, 103, 32, 97, 114,
            116, 115, 32, 112, 114, 111, 106, 101, 99, 116, 115, 32, 97, 110,
            100, 32, 99, 114, 101, 97, 116, 105, 118, 101, 32, 100, 101, 118,
            101, 108, 111, 112, 109, 101, 110, 116, 32, 97, 99, 114, 111, 115,
            115, 32, 97, 108, 108, 32, 97, 114, 116, 32, 102, 111, 114, 109,
            115, 46, 32, 66, 97, 115, 101, 100, 32, 111, 110, 32, 114, 101,
            97, 108, 32, 65, 117, 115, 116, 114, 97, 108, 105, 97, 32, 67,
            111, 117, 110, 99, 105, 108, 32, 102, 117, 110, 100, 105, 110,
            103, 32, 102, 111, 114, 32, 97, 114, 116, 115, 32, 112, 114, 111,
            106, 101, 99, 116, 115, 32, 117, 112, 32, 116, 111, 32, 36, 49,
            48, 48, 44, 48, 48, 48, 46>>
      [] str = "Department of Industry Innovation Fund" ->
            <<68, 101, 112, 97, 114, 116, 109, 101, 110, 116, 32, 111, 102,
            32, 73, 110, 100, 117, 115, 116, 114, 121, 32, 73, 110, 110, 111,
            118, 97, 116, 105, 111, 110, 32, 70, 117, 110, 100>>
      [] str = "Supporting innovation and technology development projects. Based on real Australian government innovation funding programs." ->
            <<83, 117, 112, 112, 111, 114, 116, 105, 110, 103, 32, 105, 110,
            110, 111, 118, 97, 116, 105, 111, 110, 32, 97, 110, 100, 32, 116,
            101, 99, 104, 110, 111, 108, 111, 103, 121, 32, 100, 101, 118,
            101, 108, 111, 112, 109, 101, 110, 116, 32, 112, 114, 111, 106,
            101, 99, 116, 115, 46, 32, 66, 97, 115, 101, 100, 32, 111, 110,
            32, 114, 101, 97, 108, 32, 65, 117, 115, 116, 114, 97, 108, 105,
            97, 110, 32, 103, 111, 118, 101, 114, 110, 109, 101, 110, 116, 32,
            105, 110, 110, 111, 118, 97, 116, 105, 111, 110, 32, 102, 117,
            110, 100, 105, 110, 103, 32, 112, 114, 111, 103, 114, 97, 109,
            115, 46>>
      [] str = "Indigenous Business Australia Grant" ->
            <<73, 110, 100, 105, 103, 101, 110, 111, 117, 115, 32, 66, 117,
            115, 105, 110, 101, 115, 115, 32, 65, 117, 115, 116, 114, 97, 108,
            105, 97, 32, 71, 114, 97, 110, 116>>
      [] str = "Supporting Indigenous business development and entrepreneurship. Dedicated funding for Indigenous business growth and development." ->
            <<83, 117, 112, 112, 111, 114, 116, 105, 110, 103, 32, 73, 110,
            100, 105, 103, 101, 110, 111, 117, 115, 32, 98, 117, 115, 105,
            110, 101, 115, 115, 32, 100, 101, 118, 101, 108, 111, 112, 109,
            101, 110, 116, 32, 97, 110, 100, 32, 101, 110, 116, 114, 101, 112,
            114, 101, 110, 101, 117, 114, 115, 104, 105, 112, 46, 32, 68, 101,
            100, 105, 99, 97, 116, 101, 100, 32, 102, 117, 110, 100, 105, 110,
            103, 32, 102, 111, 114, 32, 73, 110, 100, 105, 103, 101, 110, 111,
            117, 115, 32, 98, 117, 115, 105, 110, 101, 115, 115, 32, 103, 114,
            111, 119, 116, 104, 32, 97, 110, 100, 32, 100, 101, 118, 101, 108,
            111, 112, 109, 101, 110, 116, 46>>
      [] str = "Creative Victoria Enhanced Creative Industries Grant" ->
            <<67, 114, 101, 97, 116, 105, 118, 101, 32, 86, 105, 99, 116, 111,
            114, 105, 97, 32, 69, 110, 104, 97, 110, 99, 101, 100, 32, 67,
            114, 101, 97, 116, 105, 118, 101, 32, 73, 110, 100, 117, 115, 116,
            114, 105, 101, 115, 32, 71, 114, 97, 110, 116>>
      [] str = "Enhanced funding for creative projects that significantly contribute to Victoria's cultural landscape and creative economy." ->
            <<69, 110, 104, 97, 110, 99, 101, 100, 32, 102, 117, 110, 100,
            105, 110, 103, 32, 102, 111, 114, 32, 99, 114, 101, 97, 116, 105,
            118, 101, 32, 112, 114, 111, 106, 101, 99, 116, 115, 32, 116, 104,
            97, 116, 32, 115, 105, 103, 110, 105, 102, 105, 99, 97, 110, 116,
            108, 121, 32, 99, 111, 110, 116, 114, 105, 98, 117, 116, 101, 32,
            116, 111, 32, 86, 105, 99, 116, 111, 114, 105, 97, 39, 115, 32,
            99, 117, 108, 116, 117, 114, 97, 108, 32, 108, 97, 110, 100, 115,
            99, 97, 112, 101, 32, 97, 110, 100, 32, 99, 114, 101, 97, 116,
            105, 118, 101, 32, 101, 99, 111, 110, 111, 109, 121, 46>>
      [] str = "Community Development and Social Impact Grant" ->
            <<67, 111, 109, 109, 117, 110, 105, 116, 121, 32, 68, 101, 118,
            101, 108, 111, 112, 109, 101, 110, 116, 32, 97, 110, 100, 32, 83,
            111, 99, 105, 97, 108, 32, 73, 109, 112, 97, 99, 116, 32, 71, 114,
            97, 110, 116>>
      [] str = "Supporting community development projects that create measurable social impact and community benefit." ->
            <<83, 117, 112, 112, 111, 114, 116, 105, 110, 103, 32, 99, 111,
            109, 109, 117, 110, 105, 116, 121, 32, 100, 101, 118, 101, 108,
            111, 112, 109, 101, 110, 116, 32, 112, 114, 111, 106, 101, 99,
            116, 115, 32, 116, 104, 97, 116, 32, 99, 114, 101, 97, 116, 101,
            32, 109, 101, 97, 115, 117, 114, 97, 98, 108, 101, 32, 115, 111,
            99, 105, 97, 108, 32, 105, 109, 112, 97, 99, 116, 32, 97, 110,
            100, 32, 99, 111, 109, 109, 117, 110, 105, 116, 121, 32, 98, 101,
            110, 101, 102, 105, 116, 46>>
      [] str = "2026-11-08" -> <<50, 48, 50, 54, 45, 49, 49, 45, 48, 56>>
      [] str = "2026-11-09" -> <<50, 48, 50, 54, 45, 49, 49, 45, 48, 57>>

IsNum(v) == v.t \in {"int", "bool"}
IsHashable(v) == v.t \notin {"list", "dict"}

\* Python ==  (bool is a subtype of int; values of unrelated types differ;
\* dicts, whose keys are strings here, are equal when they have the same keys
\* with equal values).
RECURSIVE PyEq(_, _)
PyEq(a, b) ==
    IF IsNum(a) /\ IsNum(b) THEN a.n = b.n
    ELSE IF a.t # b.t THEN FALSE
    ELSE IF a.t = "str" THEN a.s = b.s
    ELSE IF a.t = "none" THEN TRUE
    ELSE IF a.t = "datetime" THEN a.n = b.n
    ELSE IF a.t = "dict" THEN
         /\ DOMAIN a.items = DOMAIN b.items
         /\ \A k \in DOMAIN a.items : PyEq(a.items[k], b.items[k])
    ELSE /\ Len(a.items) = Len(b.items)
         /\ \A i \in 1..Len(a.items) : PyEq(a.items[i], b.items[i])

\* Mutation of IntCmp: greater-than admits equality.
IntCmp_Inclusive(op, x, y) ==
    CASE op = "<" -> x < y
      [] op = ">" -> x >= y
      [] op = "<=" -> x <= y
      [] op = ">=" -> x >= y

\* op applied to two integers; op is one of "<", ">", "<=", ">=".
IntCmp(op, x, y) ==
    CASE op = "<" -> x < y
      [] op = ">" -> x > y
      [] op = "<=" -> x <= y
      [] op = ">=" -> x >= y

\* Lexicographic comparison of two sequences of code points.
RECURSIVE SeqCmp(_, _, _)
SeqCmp(op, x, y) ==
    IF x = <<>> \/ y = <<>> THEN IntCmp(op, Len(x), Len(y))
    ELSE IF Head(x) # Head(y) THEN IntCmp(op, Head(x), Head(y))
    ELSE SeqCmp(op, Tail(x), Tail(y))

\* Python ordered comparison  a op b : numbers with numbers, strings with
\* strings, datetimes with datetimes, lists item by item; anything else
\* raises TypeError.
RECURSIVE PyCmp(_, _, _)
PyCmp(op, a, b) ==
    IF IsNum(a) /\ IsNum(b) THEN Return(IntCmp(op, a.n, b.n))
    ELSE IF a.t = "str" /\ b.t = "str" THEN Return(SeqCmp(op, Chars(a.s), Chars(b.s)))
    ELSE IF a.t = "datetime" /\ b.t = "datetime" THEN Return(IntCmp(op, a.n, b.n))
    ELSE IF a.t = "list" /\ b.t = "list" THEN
        LET diff == {i \in 1..Len(a.items) :
                        i <= Len(b.items) /\ ~PyEq(a.items[i], b.items[i])}
        IN  IF diff = {} THEN Return(IntCmp(op, Len(a.items), Len(b.items)))
            ELSE LET i == CHOOSE j \in diff : \A k \in diff : j <= k
                 IN  PyCmp(op, a.items[i], b.items[i])
    ELSE Raise("TypeError")

\* sub occurs in str as a contiguous run.
IsSubstring(sub, str) ==
    \E i \in 0..(Len(str) - Len(sub)) :
        \A j \in 1..Len(sub) : str[i + j] = sub[j]

\* Python  x in container.
PyIn(x, container) ==
    CASE container.t = "str" ->
            IF x.t = "str" THEN Return(IsSubstring(Chars(x.s), Chars(container.s)))
            ELSE Raise("TypeError")
      [] container.t = "list" ->
            Return(\E i \in 1..Len(container.items) : PyEq(container.items[i], x))
      [] container.t = "dict" ->
            IF IsHashable(x)
            THEN Return(x.t = "str" /\ x.s \in DOMAIN container.items)
            ELSE Raise("TypeError")
      [] OTHER -> Raise("TypeError")

\* The decimal digits of a natural number, as code points.
RECURSIVE Digits(_)
Digits(i) == IF i < 10 THEN <<48 + i>> ELSE Digits(i \div 10) \o <<48 + (i % 10)>>

\* Python repr() of a scalar and str() of any value, as code points.
ScalarRepr(v) ==
    CASE v.t = "none" -> <<78, 111, 110, 101>>
      [] v.t = "bool" -> IF v.n = 1 THEN <<84, 114, 117, 101>> ELSE <<70, 97, 108, 115, 101>>
      [] v.t = "int" -> IF v.n < 0 THEN <<45>> \o Digits(-v.n) ELSE Digits(v.n)
      [] v.t = "str" -> <<39>> \o Chars(v.s) \o <<39>>
      [] v.t = "dict" -> <<123, 125>>

RECURSIVE JoinRepr(_)
JoinRepr(xs) ==
    IF xs = <<>> THEN <<>>
    ELSE IF Len(xs) = 1 THEN ScalarRepr(xs[1])
    ELSE ScalarRepr(Head(xs)) \o <<44, 32>> \o JoinRepr(Tail(xs))

PyStrOf(v) ==
    CASE v.t = "str" -> Chars(v.s)
      [] v.t = "list" -> <<91>> \o JoinRepr(v.items) \o <<93>>
      [] OTHER -> ScalarRepr(v)

\* The pattern p matches str from position k on, having consumed p up to j.
\* Patterns are literals with the anchor ^ (94).
RECURSIVE MatchAt(_, _, _, _)
MatchAt(p, str, j, k) ==
    IF j > Len(p) THEN TRUE
    ELSE IF p[j] = 94 THEN k = 1 /\ MatchAt(p, str, j + 1, k)
    ELSE k <= Len(str) /\ str[k] = p[j] /\ MatchAt(p, str, j + 1, k + 1)

\* bool(re.search(pattern, string)): the pattern must be a string; a group
\* opened with ( (40) and never closed with ) (41) is a re.error.
ReSearch(pattern, str) ==
    IF pattern.t # "str" THEN Raise("TypeError")
    ELSE LET p == Chars(pattern.s)
         IN  IF Cardinality({i \in 1..Len(p) : p[i] = 40})
                    # Cardinality({i \in 1..Len(p) : p[i] = 41})
             THEN Raise("re.error")
             ELSE Return(\E k \in 1..(Len(str) + 1) : MatchAt(p, str, 1, k))

(***************************************************************************)
(* Enumerations of the engine.                                             *)
(***************************************************************************)
RuleType == {"project_approval", "grant_matching", "user_access",
             "notification", "workflow", "compliance"}

ConditionOperator == {"equals", "not_equals", "greater_than", "less_than",
                      "greater_equal", "less_equal", "contains", "not_contains",
                      "in", "not_in", "regex", "exists", "not_exists"}

ActionType == {"send_notification", "update_status", "require_approval",
               "assign_user", "create_task", "update_project", "log_event",
               "trigger_workflow"}

(***************************************************************************)
(* Condition evaluation.                                                   *)
(*                                                                         *)
(* A condition entry is [isDict, field, operator, value]; field, operator  *)
(* and value are what condition.get(...) yields (None for a missing key).  *)
(* An entry that is not a dict has no .get.  A context is a function from  *)
(* field names to Python values.                                           *)
(***************************************************************************)
Cond(f, o, v) == [isDict |-> TRUE, field |-> f, operator |-> o, value |-> v]
NotADictCond == [isDict |-> FALSE, field |-> PyNone, operator |-> PyNone, value |-> PyNone]

\* field in context : hashing an unhashable field raises TypeError.
KeyIn(field, context) ==
    IF ~IsHashable(field) THEN Raise("TypeError")
    ELSE Return(field.t = "str" /\ field.s \in DOMAIN context)

\* The negation of a returned boolean; a raised exception stays raised.
NotOutcome(o) == IF o.raised THEN o ELSE Return(~o.value)

\* Mutation of MissingFieldResult: every negated operator holds of a missing
\* field.
MissingFieldResult_Negated(operator) ==
    Return(\E o \in {"not_exists", "not_equals", "not_contains", "not_in"} :
               PyEq(operator, PyStr(o)))

\* The result for a field that is not a key of the context.
MissingFieldResult(operator) ==
    Return(PyEq(operator, PyStr("not_exists")))

\* Mutation of ExistsResult: a field whose context value is None does not
\* exist.
ExistsResult_NotNone(field, context) ==
    IF ~IsHashable(field) THEN Raise("TypeError")
    ELSE Return(/\ field.t = "str"
                /\ field.s \in DOMAIN context
                /\ context[field.s].t # "none")

\* The exists branch: field in context.
ExistsResult(field, context) == KeyIn(field, context)

\* Mutation of ApplyOperator: contains and in test the membership the other
\* way round.
ApplyOperator_SwappedMembership(operator, field, context_value, value, context) ==
    IF operator.t # "str" THEN Return(FALSE)
    ELSE CASE operator.s = "equals" -> Return(PyEq(context_value, value))
           [] operator.s = "not_equals" -> Return(~PyEq(context_value, value))
           [] operator.s = "greater_than" -> PyCmp(">", context_value, value)
           [] operator.s = "less_than" -> PyCmp("<", context_value, value)
           [] operator.s = "greater_equal" -> PyCmp(">=", context_value, value)
           [] operator.s = "less_equal" -> PyCmp("<=", context_value, value)
           [] operator.s = "contains" -> PyIn(context_value, value)
           [] operator.s = "not_contains" -> NotOutcome(PyIn(context_value, value))
           [] operator.s = "in" -> PyIn(value, context_value)
           [] operator.s = "not_in" -> NotOutcome(PyIn(value, context_value))
           [] operator.s = "regex" -> ReSearch(value, PyStrOf(context_value))
           [] operator.s = "exists" -> ExistsResult(field, context)
           [] operator.s = "not_exists" -> NotOutcome(KeyIn(field, context))
           [] OTHER -> Return(FALSE)

\* Mutation of ApplyOperator: an operator that is none of the thirteen holds.
ApplyOperator_UnknownHolds(operator, field, context_value, value, context) ==
    IF operator.t # "str" THEN Return(TRUE)
    ELSE CASE operator.s = "equals" -> Return(PyEq(context_value, value))
           [] operator.s = "not_equals" -> Return(~PyEq(context_value, value))
           [] operator.s = "greater_than" -> PyCmp(">", context_value, value)
           [] operator.s = "less_than" -> PyCmp("<", context_value, value)
           [] operator.s = "greater_equal" -> PyCmp(">=", context_value, value)
           [] operator.s = "less_equal" -> PyCmp("<=", context_value, value)
           [] operator.s = "contains" -> PyIn(value, context_value)
           [] operator.s = "not_contains" -> NotOutcome(PyIn(value, context_value))
           [] operator.s = "in" -> PyIn(context_value, value)
           [] operator.s = "not_in" -> NotOutcome(PyIn(context_value, value))
           [] operator.s = "regex" -> ReSearch(value, PyStrOf(context_value))
           [] operator.s = "exists" -> ExistsResult(field, context)
           [] operator.s = "not_exists" -> NotOutcome(KeyIn(field, context))
           [] OTHER -> Return(TRUE)

\* The operator dispatch inside the try block of _evaluate_condition.
ApplyOperator(operator, field, context_value, value, context) ==
    IF operator.t # "str" THEN Return(FALSE)
    ELSE CASE operator.s = "equals" -> Return(PyEq(context_value, value))
           [] operator.s = "not_equals" -> Return(~PyEq(context_value, value))
           [] operator.s = "greater_than" -> PyCmp(">", context_value, value)
           [] operator.s = "less_than" -> PyCmp("<", context_value, value)
           [] operator.s = "greater_equal" -> PyCmp(">=", context_value, value)
           [] operator.s = "less_equal" -> PyCmp("<=", context_value, value)
           [] operator.s = "contains" -> PyIn(value, context_value)
           [] operator.s = "not_contains" -> NotOutcome(PyIn(value, context_value))
           [] operator.s = "in" -> PyIn(context_value, value)
           [] operator.s = "not_in" -> NotOutcome(PyIn(context_value, value))
           [] operator.s = "regex" -> ReSearch(value, PyStrOf(context_value))
           [] operator.s = "exists" -> ExistsResult(field, context)
           [] operator.s = "not_exists" -> NotOutcome(KeyIn(field, context))
           [] OTHER -> Return(FALSE)

_evaluate_condition(condition, context) ==
    IF ~condition.isDict THEN Raise("AttributeError")
    ELSE LET field == condition.field
             operator == condition.operator
             value == condition.value
             present == KeyIn(field, context)
         IN  IF present.raised THEN present
             ELSE IF ~present.value
                  THEN MissingFieldResult(operator)
                  ELSE LET r == ApplyOperator(operator, field, context[field.s],
                                              value, context)
                       IN  IF r.raised THEN Return(FALSE) ELSE r

\* Mutation of evaluate_conditions: the OR of the conditions.
RECURSIVE evaluate_conditions_Any(_, _)
evaluate_conditions_Any(conditions, context) ==
    IF conditions = <<>> THEN Return(FALSE)
    ELSE LET r == _evaluate_condition(Head(conditions), context)
         IN  IF r.raised THEN r
             ELSE IF r.value THEN Return(TRUE)
             ELSE evaluate_conditions_Any(Tail(conditions), context)

RECURSIVE evaluate_conditions(_, _)
evaluate_conditions(conditions, context) ==
    IF conditions = <<>> THEN Return(TRUE)
    ELSE LET r == _evaluate_condition(Head(conditions), context)
         IN  IF r.raised THEN r
             ELSE IF ~r.value THEN Return(FALSE)
             ELSE evaluate_conditions(Tail(conditions), context)

(***************************************************************************)
(* Action execution.                                                       *)
(*                                                                         *)
(* An action entry is [isDict, type, params]: type is action.get('type')   *)
(* and params is action.get('params', {}), a dict (map) or a value that    *)
(* is not a dict and so has no .get.  A handler returns a dict of Python   *)
(* values; _execute_action returns that dict or None.                      *)
(***************************************************************************)
Params(m) == [isDict |-> TRUE, map |-> m]
NotADictParams == [isDict |-> FALSE, map |-> <<>>]
Action(ty, ps) == [isDict |-> TRUE, type |-> ty, params |-> ps]
NotADictAction == [isDict |-> FALSE, type |-> PyNone, params |-> Params(<<>>)]

ResultNone == [isNone |-> TRUE, fields |-> <<>>]
ResultDict(f) == [isNone |-> FALSE, fields |-> f]

\* params.get(key, default)
PGet(params, key, default) ==
    IF key \in DOMAIN params.map THEN params.map[key] ELSE default

\* The default action handlers, called as handler(params, context): each
\* reads its parameters with params.get and returns an acknowledgment
\* record; none of them reads the context.
Handler(type, params, context) ==
    IF ~params.isDict
    THEN RaiseMsg("AttributeError", "'str' object has no attribute 'get'")
    ELSE Return(ResultDict(
        CASE type = "send_notification" ->
                [notification_sent |-> PyBool(TRUE),
                 type |-> PGet(params, "type", PyStr("email")),
                 recipient |-> PGet(params, "recipient", PyNone),
                 message |-> PGet(params, "message", PyStr(""))]
          [] type = "update_status" ->
                [status_updated |-> PyBool(TRUE),
                 entity_type |-> PGet(params, "entity_type", PyNone),
                 entity_id |-> PGet(params, "entity_id", PyNone),
                 new_status |-> PGet(params, "status", PyNone)]
          [] type = "require_approval" ->
                [approval_required |-> PyBool(TRUE),
                 approver_role |-> PGet(params, "approver_role", PyStr("admin")),
                 entity_type |-> PGet(params, "entity_type", PyNone),
                 entity_id |-> PGet(params, "entity_id", PyNone)]
          [] type = "assign_user" ->
                [user_assigned |-> PyBool(TRUE),
                 user_id |-> PGet(params, "user_id", PyNone),
                 role |-> PGet(params, "role", PyNone),
                 entity_type |-> PGet(params, "entity_type", PyNone),
                 entity_id |-> PGet(params, "entity_id", PyNone)]
          [] type = "create_task" ->
                [task_created |-> PyBool(TRUE),
                 title |-> PGet(params, "title", PyNone),
                 description |-> PGet(params, "description", PyStr("")),
                 assignee |-> PGet(params, "assignee", PyNone),
                 due_date |-> PGet(params, "due_date", PyNone)]
          [] type = "update_project" ->
                [project_updated |-> PyBool(TRUE),
                 project_id |-> PGet(params, "project_id", PyNone),
                 updates |-> PGet(params, "updates", PyEmptyDict)]
          [] type = "log_event" ->
                [event_logged |-> PyBool(TRUE),
                 event_type |-> PGet(params, "event_type", PyNone),
                 message |-> PGet(params, "message", PyStr("")),
                 level |-> PGet(params, "level", PyStr("info"))]
          [] type = "trigger_workflow" ->
                [workflow_triggered |-> PyBool(TRUE),
                 workflow_name |-> PGet(params, "workflow_name", PyNone),
                 workflow_params |-> PGet(params, "workflow_params", PyEmptyDict)]))

\* Mutation of _execute_action: an unknown action type is an error.
_execute_action_Strict(action, context, handlers) ==
    IF ~action.isDict
    THEN RaiseMsg("AttributeError", "'str' object has no attribute 'get'")
    ELSE IF ~IsHashable(action.type)
    THEN RaiseMsg("TypeError", "unhashable type: 'list'")
    ELSE IF action.type.t = "str" /\ action.type.s \in handlers
    THEN Handler(action.type.s, action.params, context)
    ELSE RaiseMsg("ValueError", "Unknown action type")

\* Mutation of _execute_action: the placeholder text "{project_id}" in a
\* parameter is replaced by the context's project_id before the handler is
\* called.
_execute_action_Substituting(action, context, handlers) ==
    IF ~action.isDict
    THEN RaiseMsg("AttributeError", "'str' object has no attribute 'get'")
    ELSE LET action_type == action.type
             params ==
                 IF ~action.params.isDict \/ "project_id" \notin DOMAIN context
                 THEN action.params
                 ELSE Params([k \in DOMAIN action.params.map |->
                                 IF action.params.map[k] = PyStr("{project_id}")
                                 THEN context.project_id
                                 ELSE action.params.map[k]])
         IN  IF ~IsHashable(action_type)
             THEN RaiseMsg("TypeError", "unhashable type: 'list'")
             ELSE IF action_type.t = "str" /\ action_type.s \in handlers
                  THEN Handler(action_type.s, params, context)
                  ELSE Return(ResultNone)

_execute_action(action, context, handlers) ==
    IF ~action.isDict
    THEN RaiseMsg("AttributeError", "'str' object has no attribute 'get'")
    ELSE LET action_type == action.type
             params == action.params
         IN  IF ~IsHashable(action_type)
             THEN RaiseMsg("TypeError", "unhashable type: 'list'")
             ELSE IF action_type.t = "str" /\ action_type.s \in handlers
                  THEN Handler(action_type.s, params, context)
                  ELSE Return(ResultNone)

\* The two shapes of an entry of the list execute_actions returns.
ActionSuccess(ty, r) ==
    [keys |-> {"action", "success", "result"},
     action |-> ty, success |-> TRUE, result |-> r, error |-> ""]
ActionFailure(ty, m) ==
    [keys |-> {"action", "success", "error"},
     action |-> ty, success |-> FALSE, result |-> ResultNone, error |-> m]

\* Mutation of ExecuteLoop: the first failing action ends the loop.
RECURSIVE ExecuteLoop_StopAtFailure(_, _, _, _)
ExecuteLoop_StopAtFailure(actions, context, handlers, results) ==
    IF actions = <<>> THEN Return(results)
    ELSE LET action == Head(actions)
             r == _execute_action(action, context, handlers)
         IN  IF ~r.raised
             THEN ExecuteLoop_StopAtFailure(Tail(actions), context, handlers,
                      Append(results, ActionSuccess(action.type, r.value)))
             ELSE IF ~action.isDict
                  THEN RaiseMsg("AttributeError", "'str' object has no attribute 'get'")
                  ELSE Return(Append(results, ActionFailure(action.type, r.msg)))

\* The loop of execute_actions over the actions not yet executed.  The
\* except block calls action.get('type') again, which raises out of the
\* loop when the action is not a dict.
RECURSIVE ExecuteLoop(_, _, _, _)
ExecuteLoop(actions, context, handlers, results) ==
    IF actions = <<>> THEN Return(results)
    ELSE LET action == Head(actions)
             r == _execute_action(action, context, handlers)
         IN  IF ~r.raised
             THEN ExecuteLoop(Tail(actions), context, handlers,
                              Append(results, ActionSuccess(action.type, r.value)))
             ELSE IF ~action.isDict
                  THEN RaiseMsg("AttributeError", "'str' object has no attribute 'get'")
                  ELSE ExecuteLoop(Tail(actions), context, handlers,
                                   Append(results, ActionFailure(action.type, r.msg)))

execute_actions(actions, context, handlers) ==
    ExecuteLoop(actions, context, handlers, <<>>)

(***************************************************************************)
(* The rule store and the rule processor.                                  *)
(*                                                                         *)
(* A rule dict is [isDict, keys, name, rule_type, conditions, actions];    *)
(* conditions and actions are [isList, items].  A rule argument that is    *)
(* not a dict models None.                                                 *)
(***************************************************************************)
ListOf(xs) == [isList |-> TRUE, items |-> xs]
NotAList == [isList |-> FALSE, items |-> <<>>]
RequiredFields == <<"name", "rule_type", "conditions", "actions">>

Rule(nm, ty, conds, acts) ==
    [isDict |-> TRUE, keys |-> {"name", "rule_type", "conditions", "actions"},
     name |-> nm, rule_type |-> ty, conditions |-> conds, actions |-> acts]

\* bool(v)
Truthy(v) ==
    CASE v.t = "none" -> FALSE
      [] v.t \in {"int", "bool"} -> v.n # 0
      [] v.t = "str" -> v.s # ""
      [] OTHER -> v.items # <<>>

\* Mutation of _validate_rule: only the presence of the keys is checked.
_validate_rule_KeysOnly(rule) ==
    IF ~rule.isDict THEN Raise("TypeError")
    ELSE IF \E i \in 1..Len(RequiredFields) : RequiredFields[i] \notin rule.keys
    THEN Raise("ValueError")
    ELSE Return(PyNone)

_validate_rule(rule) ==
    IF ~rule.isDict THEN Raise("TypeError")
    ELSE IF \E i \in 1..Len(RequiredFields) : RequiredFields[i] \notin rule.keys
    THEN Raise("ValueError")
    ELSE IF ~rule.conditions.isList THEN Raise("ValueError")
    ELSE IF ~rule.actions.isList THEN Raise("ValueError")
    ELSE Return(PyNone)

\* Mutation of add_rule: the rule is inserted at the head of the store.
add_rule_Prepend(rs, rule) ==
    IF _validate_rule(rule).raised
    THEN [rules |-> rs, result |-> FALSE]
    ELSE [rules |-> <<rule>> \o rs, result |-> TRUE]

\* add_rule: the store after the call and the value returned.
add_rule(rs, rule) ==
    IF _validate_rule(rule).raised
    THEN [rules |-> rs, result |-> FALSE]
    ELSE [rules |-> Append(rs, rule), result |-> TRUE]

\* Mutation of AddEach: the loop starts at the second element.
RECURSIVE AddEach_SkipFirst(_, _, _)
AddEach_SkipFirst(rs, new, i) ==
    IF i + 1 > Len(new) THEN [rules |-> rs, accepted |-> <<>>, results |-> <<>>]
    ELSE LET r == add_rule(rs, new[i + 1])
             rest == AddEach_SkipFirst(r.rules, new, i + 1)
         IN  [rules |-> rest.rules,
              accepted |-> (IF r.result THEN <<new[i + 1]>> ELSE <<>>) \o rest.accepted,
              results |-> <<r.result>> \o rest.results]

\* for rule in new: add_rule(rule), from the i-th element on: the store after
\* the loop, the rules accepted and the value of each add_rule call.
RECURSIVE AddEach(_, _, _)
AddEach(rs, new, i) ==
    IF i > Len(new) THEN [rules |-> rs, accepted |-> <<>>, results |-> <<>>]
    ELSE LET r == add_rule(rs, new[i])
             rest == AddEach(r.rules, new, i + 1)
         IN  [rules |-> rest.rules,
              accepted |-> (IF r.result THEN <<new[i]>> ELSE <<>>) \o rest.accepted,
              results |-> <<r.result>> \o rest.results]

TriggerResult(rule, action_results) ==
    [rule_name |-> rule.name, rule_type |-> rule.rule_type,
     triggered |-> TRUE, actions |-> action_results]

\* Mutation of SkipByType: the filter applies whenever rule_types is not None.
SkipByType_NotNone(rule, rule_types) ==
    IF rule_types.t # "none"
    THEN NotOutcome(PyIn(rule.rule_type, rule_types))
    ELSE Return(FALSE)

\* The type filter: rule_types and rule.get('rule_type') not in rule_types.
SkipByType(rule, rule_types) ==
    IF Truthy(rule_types)
    THEN NotOutcome(PyIn(rule.rule_type, rule_types))
    ELSE Return(FALSE)

\* Mutation of ProcessLoop: a rule whose conditions fail is reported with
\* triggered = false.
RECURSIVE ProcessLoop_ReportAll(_, _, _, _, _, _)
ProcessLoop_ReportAll(rs, handlers, context, rule_types, i, results) ==
    IF i > Len(rs) THEN Return(results)
    ELSE LET rule == rs[i]
             skip == SkipByType(rule, rule_types)
         IN  IF skip.raised THEN skip
             ELSE IF skip.value
             THEN ProcessLoop_ReportAll(rs, handlers, context, rule_types, i + 1, results)
             ELSE LET c == evaluate_conditions(rule.conditions.items, context)
                  IN  IF c.raised THEN c
                      ELSE IF ~c.value
                      THEN ProcessLoop_ReportAll(rs, handlers, context, rule_types, i + 1,
                               Append(results, [TriggerResult(rule, <<>>)
                                                    EXCEPT !.triggered = FALSE]))
                      ELSE LET a == execute_actions(rule.actions.items, context, handlers)
                           IN  IF a.raised THEN a
                               ELSE ProcessLoop_ReportAll(rs, handlers, context, rule_types,
                                        i + 1, Append(results, TriggerResult(rule, a.value)))

\* The loop of process_rules from the i-th stored rule on.
RECURSIVE ProcessLoop(_, _, _, _, _, _)
ProcessLoop(rs, handlers, context, rule_types, i, results) ==
    IF i > Len(rs) THEN Return(results)
    ELSE LET rule == rs[i]
             skip == SkipByType(rule, rule_types)
         IN  IF skip.raised THEN skip
             ELSE IF skip.value
             THEN ProcessLoop(rs, handlers, context, rule_types, i + 1, results)
             ELSE LET c == evaluate_conditions(rule.conditions.items, context)
                  IN  IF c.raised THEN c
                      ELSE IF ~c.value
                      THEN ProcessLoop(rs, handlers, context, rule_types, i + 1, results)
                      ELSE LET a == execute_actions(rule.actions.items, context, handlers)
                           IN  IF a.raised THEN a
                               ELSE ProcessLoop(rs, handlers, context, rule_types, i + 1,
                                        Append(results, TriggerResult(rule, a.value)))

process_rules(rs, handlers, context, rule_types) ==
    ProcessLoop(rs, handlers, context, rule_types, 1, <<>>)

(***************************************************************************)
(* The rules file.                                                         *)
(*                                                                         *)
(* save_rules_to_file writes the store with json.dump and                  *)
(* load_rules_from_file reads it back with json.load.  A document is a     *)
(* JSON value (null, boolean, number, string, array, object); the text of  *)
(* the file is the json library's own business.                            *)
(***************************************************************************)
JNull == [j |-> "null"]
JBool(b) == [j |-> "boolean", b |-> b]
JNumber(n) == [j |-> "number", n |-> n]
JString(str) == [j |-> "string", s |-> str]
JArray(xs) == [j |-> "array", items |-> xs]
JObject(m) == [j |-> "object", members |-> m]

\* json.dump of a Python value.
RECURSIVE JsonOfValue(_)
JsonOfValue(v) ==
    CASE v.t = "none" -> JNull
      [] v.t = "bool" -> JBool(v.n = 1)
      [] v.t = "int" -> JNumber(v.n)
      [] v.t = "str" -> JString(v.s)
      [] v.t = "list" -> JArray([i \in 1..Len(v.items) |-> JsonOfValue(v.items[i])])
      [] v.t = "dict" -> JObject([k \in DOMAIN v.items |-> JsonOfValue(v.items[k])])

\* Mutation of ValueOfJson: true and false are read as the numbers 1 and 0.
RECURSIVE ValueOfJson_BoolAsNumber(_)
ValueOfJson_BoolAsNumber(x) ==
    CASE x.j = "null" -> PyNone
      [] x.j = "boolean" -> PyInt(IF x.b THEN 1 ELSE 0)
      [] x.j = "number" -> PyInt(x.n)
      [] x.j = "string" -> PyStr(x.s)
      [] x.j = "array" ->
            PyList([i \in 1..Len(x.items) |-> ValueOfJson_BoolAsNumber(x.items[i])])
      [] x.j = "object" ->
            PyDict([k \in DOMAIN x.members |-> ValueOfJson_BoolAsNumber(x.members[k])])

\* json.load of a JSON value.
RECURSIVE ValueOfJson(_)
ValueOfJson(x) ==
    CASE x.j = "null" -> PyNone
      [] x.j = "boolean" -> PyBool(x.b)
      [] x.j = "number" -> PyInt(x.n)
      [] x.j = "string" -> PyStr(x.s)
      [] x.j = "array" -> PyList([i \in 1..Len(x.items) |-> ValueOfJson(x.items[i])])
      [] x.j = "object" -> PyDict([k \in DOMAIN x.members |-> ValueOfJson(x.members[k])])

\* The loaded value of member key of a JSON object; None where the object
\* has no such member (the value dict.get gives).
Member(x, key) ==
    IF key \in DOMAIN x.members THEN ValueOfJson(x.members[key]) ELSE PyNone

\* A condition entry, dumped and loaded.  The entries of the model that are
\* not dicts are strings.
JsonOfCondition(c) ==
    IF c.isDict
    THEN JObject([field |-> JsonOfValue(c.field),
                  operator |-> JsonOfValue(c.operator),
                  value |-> JsonOfValue(c.value)])
    ELSE JString("bad")

ConditionOfJson(x) ==
    IF x.j = "object"
    THEN Cond(Member(x, "field"), Member(x, "operator"), Member(x, "value"))
    ELSE NotADictCond

\* An action entry and its params, dumped and loaded.
JsonOfParams(ps) ==
    IF ps.isDict
    THEN JObject([k \in DOMAIN ps.map |-> JsonOfValue(ps.map[k])])
    ELSE JString("bad")

ParamsOfJson(x) ==
    IF x.j = "object"
    THEN Params([k \in DOMAIN x.members |-> ValueOfJson(x.members[k])])
    ELSE NotADictParams

JsonOfAction(a) ==
    IF a.isDict
    THEN JObject([type |-> JsonOfValue(a.type), params |-> JsonOfParams(a.params)])
    ELSE JString("bad")

ActionOfJson(x) ==
    IF x.j = "object"
    THEN Action(Member(x, "type"),
                IF "params" \in DOMAIN x.members
                THEN ParamsOfJson(x.members["params"]) ELSE Params(<<>>))
    ELSE NotADictAction

\* A stored rule (it has passed _validate_rule), dumped: an object with the
\* keys of the rule.
JsonOfRule(rule) ==
    JObject([k \in rule.keys |->
        CASE k = "name" -> JsonOfValue(rule.name)
          [] k = "rule_type" -> JsonOfValue(rule.rule_type)
          [] k = "conditions" ->
                JArray([i \in 1..Len(rule.conditions.items) |->
                           JsonOfCondition(rule.conditions.items[i])])
          [] k = "actions" ->
                JArray([i \in 1..Len(rule.actions.items) |->
                           JsonOfAction(rule.actions.items[i])])
          [] OTHER -> JString("")])

\* An element of a loaded document, as the value add_rule is called with.
RuleOfJson(x) ==
    IF x.j # "object"
    THEN [isDict |-> FALSE, keys |-> {}, name |-> PyNone, rule_type |-> PyNone,
          conditions |-> NotAList, actions |-> NotAList]
    ELSE [isDict |-> TRUE,
          keys |-> DOMAIN x.members,
          name |-> Member(x, "name"),
          rule_type |-> Member(x, "rule_type"),
          conditions |->
              IF "conditions" \in DOMAIN x.members /\ x.members["conditions"].j = "array"
              THEN ListOf([i \in 1..Len(x.members["conditions"].items) |->
                              ConditionOfJson(x.members["conditions"].items[i])])
              ELSE NotAList,
          actions |->
              IF "actions" \in DOMAIN x.members /\ x.members["actions"].j = "array"
              THEN ListOf([i \in 1..Len(x.members["actions"].items) |->
                              ActionOfJson(x.members["actions"].items[i])])
              ELSE NotAList]

\* The paths of the model: the rules file, and a path in a directory that
\* does not exist, which open() refuses.
RulesPath == "rules.json"
PathInputs == { RulesPath, "missing/rules.json" }

\* save_rules_to_file: the file after the call and the value returned.  The
\* file keeps, as history, the store its document was written from.
save_rules_to_file(rs, f, file_path) ==
    IF file_path # RulesPath
    THEN [file |-> f, result |-> FALSE]
    ELSE [file |-> [exists |-> TRUE,
                    doc |-> JArray([i \in 1..Len(rs) |-> JsonOfRule(rs[i])]),
                    saved |-> rs],
          result |-> TRUE]

\* Mutation of load_rules_from_file: the loaded rules replace the store.
load_rules_from_file_Replace(rs, f, file_path) ==
    IF file_path # RulesPath \/ ~f.exists
    THEN [rules |-> rs, accepted |-> <<>>, result |-> FALSE]
    ELSE LET r == AddEach(<<>>, [i \in 1..Len(f.doc.items) |-> RuleOfJson(f.doc.items[i])], 1)
         IN  [rules |-> r.rules, accepted |-> r.accepted, result |-> TRUE]

\* load_rules_from_file: the store after the call, the rules accepted and
\* the value returned.  A document that is not an array is iterated over if
\* it is an object or a string (add_rule refuses each key or character) and
\* makes the loop raise otherwise.
load_rules_from_file(rs, f, file_path) ==
    IF file_path # RulesPath \/ ~f.exists
    THEN [rules |-> rs, accepted |-> <<>>, result |-> FALSE]
    ELSE IF f.doc.j # "array"
    THEN [rules |-> rs, accepted |-> <<>>, result |-> f.doc.j \in {"object", "string"}]
    ELSE LET r == AddEach(rs, [i \in 1..Len(f.doc.items) |-> RuleOfJson(f.doc.items[i])], 1)
         IN  [rules |-> r.rules, accepted |-> r.accepted, result |-> TRUE]

(***************************************************************************)
(* Inputs of the model: the arguments the calls are made with.             *)
(***************************************************************************)
AdminOrMember == PyList(<<PyStr("admin"), PyStr("member")>>)

\* Contexts, as the endpoints of main.py build them from a request.
Contexts ==
    { [project_amount |-> PyInt(15000), user_role |-> PyStr("member")],
      [project_amount |-> PyInt(5000), user_role |-> PyStr("member")],
      [project_amount |-> PyInt(10000), user_role |-> PyStr("admin")],
      [project_amount |-> PyInt(15000), user_role |-> PyStr("admin"),
       tags |-> AdminOrMember],
      [user_role |-> PyNone],
      <<>> }

\* Contexts that actions are executed with: the handlers do not read them.
ActionContexts ==
    { [project_amount |-> PyInt(15000), user_role |-> PyStr("member")], <<>> }

\* Contexts of project creation at and around the approval threshold.
ApprovalContexts ==
    { [project_amount |-> PyInt(15000), user_role |-> PyStr("member")],
      [project_amount |-> PyInt(10000), user_role |-> PyStr("member")],
      [project_amount |-> PyInt(10001), user_role |-> PyStr("member")],
      [project_amount |-> PyInt(5000), user_role |-> PyStr("member")],
      [project_amount |-> PyInt(15000), user_role |-> PyStr("admin")],
      [project_amount |-> PyInt(15000), user_role |-> PyNone],
      [project_amount |-> PyInt(15000)] }

\* The context create_project builds for a new project, with all its keys.
ProjectContexts ==
    { [project_id |-> PyInt(1), project_amount |-> PyInt(15000),
       user_role |-> PyStr("member"), project_status |-> PyStr("planning"),
       user_id |-> PyInt(2)],
      [project_id |-> PyStr("admin"), project_amount |-> PyInt(15000),
       user_role |-> PyNone, project_status |-> PyStr("planning"),
       user_id |-> PyInt(2)] }

\* The day of the clock, as a day number, and as the ISO date "2026-11-01".
Today == 20758

\* Contexts about a grant: the deadline is an ISO date string, as a JSON
\* request body carries it, or a datetime object; the deadlines are 4, 7
\* and 8 days after Today.  One grant is closed.
GrantDeadlineInputs ==
    { PyStr("2026-11-08"), PyStr("2026-11-09"),
      PyDatetime(Today + 4), PyDatetime(Today + 8) }
GrantContexts ==
    { [grant_deadline |-> d, grant_status |-> PyStr("active")] : d \in GrantDeadlineInputs }
    \cup { [grant_deadline |-> PyStr("2026-11-08"), grant_status |-> PyStr("closed")] }

\* rule_types arguments: absent, empty, one type, two types.
RuleTypesInputs ==
    { PyNone, PyList(<<>>), PyList(<<PyStr("workflow")>>),
      PyList(<<PyStr("project_approval"), PyStr("notification")>>) }

\* The first rule of the default catalogue.
HighValueProjectApproval ==
    Rule(PyStr("High Value Project Approval"), PyStr("project_approval"),
         ListOf(<<Cond(PyStr("project_amount"), PyStr("greater_than"), PyInt(10000)),
                  Cond(PyStr("user_role"), PyStr("not_equals"), PyStr("admin"))>>),
         ListOf(<<Action(PyStr("require_approval"),
                         Params([approver_role |-> PyStr("admin"),
                                 entity_type |-> PyStr("project"),
                                 entity_id |-> PyStr("{project_id}")])),
                  Action(PyStr("send_notification"),
                         Params([type |-> PyStr("email"),
                                 recipient |-> PyStr("admin@shadow-goose.com"),
                                 message |-> PyStr("High value project requires approval")]))>>))

\* The other rules of the default catalogue, in catalogue order.  The sign
\* U+1F6A8 at the head of two messages is written <U+1F6A8>.
GrantDeadlineAlert ==
    Rule(PyStr("Grant Deadline Alert"), PyStr("notification"),
         ListOf(<<Cond(PyStr("grant_deadline"), PyStr("less_equal"),
                       PyStr("{datetime.now() + timedelta(days=7)}")),
                  Cond(PyStr("grant_status"), PyStr("equals"), PyStr("active"))>>),
         ListOf(<<Action(PyStr("send_notification"),
                         Params([type |-> PyStr("slack"),
                                 recipient |-> PyStr("#grants"),
                                 message |-> PyStr("Grant {grant_name} closes in 7 days")]))>>))

NewUserAssignment ==
    Rule(PyStr("New User Assignment"), PyStr("user_access"),
         ListOf(<<Cond(PyStr("user_role"), PyStr("equals"), PyStr("user")),
                  Cond(PyStr("user_projects"), PyStr("equals"), PyInt(0))>>),
         ListOf(<<Action(PyStr("assign_user"),
                         Params([user_id |-> PyStr("{user_id}"),
                                 role |-> PyStr("member"),
                                 entity_type |-> PyStr("project"),
                                 entity_id |-> PyStr("default")]))>>))

ProductionDeploymentApproval ==
    Rule(PyStr("Production Deployment Approval"), PyStr("workflow"),
         ListOf(<<Cond(PyStr("deployment_environment"), PyStr("equals"),
                       PyStr("production")),
                  Cond(PyStr("user_role"), PyStr("not_equals"), PyStr("admin"))>>),
         ListOf(<<Action(PyStr("require_approval"),
                         Params([approver_role |-> PyStr("admin"),
                                 entity_type |-> PyStr("deployment"),
                                 entity_id |-> PyStr("{deployment_id}")])),
                  Action(PyStr("send_notification"),
                         Params([type |-> PyStr("slack"),
                                 recipient |-> PyStr("#deployments"),
                                 message |-> PyStr("Production deployment requires admin approval")])),
                  Action(PyStr("log_event"),
                         Params([event_type |-> PyStr("deployment_approval_required"),
                                 message |-> PyStr("Production deployment pending approval"),
                                 level |-> PyStr("warning")]))>>))

StagingAutoDeploy ==
    Rule(PyStr("Staging Auto-Deploy"), PyStr("workflow"),
         ListOf(<<Cond(PyStr("branch_name"), PyStr("equals"), PyStr("main")),
                  Cond(PyStr("deployment_environment"), PyStr("equals"),
                       PyStr("staging")),
                  Cond(PyStr("commit_message"), PyStr("contains"), PyStr("feat:"))>>),
         ListOf(<<Action(PyStr("trigger_workflow"),
                         Params([workflow_name |-> PyStr("staging_deploy"),
                                 workflow_params |-> PyDict([environment |-> PyStr("staging"),
                                                            auto_deploy |-> PyBool(TRUE)])])),
                  Action(PyStr("send_notification"),
                         Params([type |-> PyStr("slack"),
                                 recipient |-> PyStr("#deployments"),
                                 message |-> PyStr("Auto-deploying to staging: {commit_message}")]))>>))

CriticalBugHotfix ==
    Rule(PyStr("Critical Bug Hotfix"), PyStr("workflow"),
         ListOf(<<Cond(PyStr("commit_message"), PyStr("contains"), PyStr("hotfix:")),
                  Cond(PyStr("priority"), PyStr("equals"), PyStr("critical"))>>),
         ListOf(<<Action(PyStr("trigger_workflow"),
                         Params([workflow_name |-> PyStr("emergency_deploy"),
                                 workflow_params |-> PyDict([environment |-> PyStr("production"),
                                                            skip_tests |-> PyBool(TRUE),
                                                            emergency |-> PyBool(TRUE)])])),
                  Action(PyStr("send_notification"),
                         Params([type |-> PyStr("slack"),
                                 recipient |-> PyStr("#alerts"),
                                 message |-> PyStr("<U+1F6A8> CRITICAL: Emergency deployment for hotfix")])),
                  Action(PyStr("log_event"),
                         Params([event_type |-> PyStr("emergency_deployment"),
                                 message |-> PyStr("Critical hotfix deployment initiated"),
                                 level |-> PyStr("critical")]))>>))

DeploymentHealthCheck ==
    Rule(PyStr("Deployment Health Check"), PyStr("workflow"),
         ListOf(<<Cond(PyStr("deployment_status"), PyStr("equals"), PyStr("failed")),
                  Cond(PyStr("deployment_environment"), PyStr("equals"),
                       PyStr("production"))>>),
         ListOf(<<Action(PyStr("trigger_workflow"),
                         Params([workflow_name |-> PyStr("rollback_deployment"),
                                 workflow_params |-> PyDict([environment |-> PyStr("production"),
                                                            reason |-> PyStr("health_check_failed")])])),
                  Action(PyStr("send_notification"),
                         Params([type |-> PyStr("slack"),
                                 recipient |-> PyStr("#alerts"),
                                 message |-> PyStr("<U+1F6A8> DEPLOYMENT FAILED: Initiating rollback")])),
                  Action(PyStr("log_event"),
                         Params([event_type |-> PyStr("deployment_rollback"),
                                 message |-> PyStr("Production deployment failed, rolling back"),
                                 level |-> PyStr("error")]))>>))

CodeReviewRequired ==
    Rule(PyStr("Code Review Required"), PyStr("workflow"),
         ListOf(<<Cond(PyStr("user_role"), PyStr("not_equals"), PyStr("admin")),
                  Cond(PyStr("branch_name"), PyStr("equals"), PyStr("main"))>>),
         ListOf(<<Action(PyStr("require_approval"),
                         Params([approver_role |-> PyStr("admin"),
                                 entity_type |-> PyStr("pull_request"),
                                 entity_id |-> PyStr("{pr_id}")])),
                  Action(PyStr("send_notification"),
                         Params([type |-> PyStr("slack"),
                                 recipient |-> PyStr("#code-review"),
                                 message |-> PyStr("Code review required for main branch commit")]))>>))

SecurityScanOnDeploy ==
    Rule(PyStr("Security Scan on Deploy"), PyStr("compliance"),
         ListOf(<<Cond(PyStr("deployment_environment"), PyStr("equals"),
                       PyStr("production")),
                  Cond(PyStr("security_scan_status"), PyStr("not_equals"),
                       PyStr("passed"))>>),
         ListOf(<<Action(PyStr("trigger_workflow"),
                         Params([workflow_name |-> PyStr("security_scan"),
                                 workflow_params |-> PyDict([scan_type |-> PyStr("full"),
                                                            block_deploy |-> PyBool(TRUE)])])),
                  Action(PyStr("send_notification"),
                         Params([type |-> PyStr("slack"),
                                 recipient |-> PyStr("#security"),
                                 message |-> PyStr("Security scan required before production deploy")]))>>))

\* A rule dict that also has the key description, as every rule of the
\* catalogue and every rule built by the create_rule endpoint has (the text
\* of the description is not modelled).
WithDescription(rule) == [rule EXCEPT !.keys = @ \cup {"description"}]

\* get_default_rules(): the catalogue.
get_default_rules ==
    [i \in 1..9 |->
        WithDescription(
            <<HighValueProjectApproval, GrantDeadlineAlert, NewUserAssignment,
              ProductionDeploymentApproval, StagingAutoDeploy, CriticalBugHotfix,
              DeploymentHealthCheck, CodeReviewRequired, SecurityScanOnDeploy>>[i])]

\* A rule without conditions; its first action has no registered handler.
AlwaysWorkflow ==
    Rule(PyStr("Always"), PyStr("workflow"), ListOf(<<>>),
         ListOf(<<Action(PyStr("page_oncall"), Params(<<>>)),
                  Action(PyStr("log_event"), Params([event_type |-> PyStr("deploy")]))>>))

\* A second rule of the name "Always", with another action list.
AlwaysNotify ==
    Rule(PyStr("Always"), PyStr("workflow"), ListOf(<<>>),
         ListOf(<<Action(PyStr("send_notification"),
                         Params([recipient |-> PyStr("admin")]))>>))

\* A rule whose first action makes its handler raise (params is not a dict)
\* and whose last action has an unhashable type.
FailingAction ==
    Rule(PyStr("Failing Action"), PyStr("workflow"),
         ListOf(<<Cond(PyStr("user_role"), PyStr("exists"), PyNone)>>),
         ListOf(<<Action(PyStr("send_notification"), NotADictParams),
                  Action(PyStr("log_event"), Params(<<>>)),
                  Action(PyList(<<PyStr("admin")>>), Params(<<>>))>>))

\* A rule whose condition compares a number with a string.
MismatchCondition ==
    Rule(PyStr("Mismatch"), PyStr("notification"),
         ListOf(<<Cond(PyStr("project_amount"), PyStr("greater_than"), PyStr("admin"))>>),
         ListOf(<<Action(PyStr("log_event"), Params(<<>>))>>))

\* A rule whose conditions list holds an entry that is not a dict, as the
\* untyped list of RuleCreate admits.
MalformedCondition ==
    Rule(PyStr("Malformed"), PyStr("compliance"),
         ListOf(<<NotADictCond>>), ListOf(<<>>))

\* Arguments of add_rule that _validate_rule rejects.
MissingActions ==
    [HighValueProjectApproval EXCEPT !.keys = {"name", "rule_type", "conditions"},
                                     !.actions = NotAList]
ConditionsNotAList == [AlwaysWorkflow EXCEPT !.conditions = NotAList]
NoneRule == [AlwaysWorkflow EXCEPT !.isDict = FALSE, !.keys = {}]

ValidRuleInputs ==
    { HighValueProjectApproval, AlwaysWorkflow, FailingAction,
      MismatchCondition, MalformedCondition }
RuleInputs == ValidRuleInputs \cup { MissingActions, ConditionsNotAList, NoneRule }

\* Conditions evaluated directly: every operator of the engine, an unknown
\* one and a missing one, over present, missing, absent and unhashable fields.
FieldInputs ==
    { PyStr("user_role"), PyStr("project_amount"), PyStr("tags"),
      PyStr("missing"), PyNone, PyList(<<PyStr("user_role")>>) }
OperatorInputs ==
    { PyStr(o) : o \in ConditionOperator } \cup { PyStr("between"), PyNone }
ValueInputs ==
    { PyInt(10000), PyStr("admin"), PyStr("adm"), PyStr("^adm"), PyStr("(adm"),
      PyNone, AdminOrMember }
ConditionInputs ==
    { Cond(f, o, v) : f \in FieldInputs, o \in OperatorInputs, v \in ValueInputs }
        \cup { NotADictCond }

\* Seq(S) up to length n.
RECURSIVE SeqsUpTo(_, _)
SeqsUpTo(S, n) ==
    IF n = 0 THEN { <<>> }
    ELSE LET shorter == SeqsUpTo(S, n - 1)
         IN  shorter \cup { Append(q, x) : q \in shorter, x \in S }

\* Condition lists evaluated directly.
ConditionPool ==
    { Cond(PyStr("project_amount"), PyStr("greater_than"), PyInt(10000)),
      Cond(PyStr("user_role"), PyStr("not_equals"), PyStr("admin")),
      Cond(PyStr("user_role"), PyStr("regex"), PyStr("(adm")),
      Cond(PyStr("missing"), PyStr("not_exists"), PyNone),
      Cond(PyList(<<PyStr("user_role")>>), PyStr("equals"), PyNone),
      NotADictCond }
ConditionListInputs == SeqsUpTo(ConditionPool, MaxConds)

\* Action lists executed directly.
ActionPool ==
    { Action(PyStr("send_notification"), Params([recipient |-> PyStr("admin")])),
      Action(PyStr("send_notification"), NotADictParams),
      Action(PyStr("require_approval"), Params([entity_id |-> PyStr("{project_id}")])),
      Action(PyStr("page_oncall"), Params(<<>>)),
      Action(PyNone, Params(<<>>)),
      Action(PyList(<<PyStr("admin")>>), Params(<<>>)),
      NotADictAction }
ActionListInputs == SeqsUpTo(ActionPool, MaxActions)

(***************************************************************************)
(* The state machine.                                                      *)
(*                                                                         *)
(* add_rule and process_rules are called on the shared engine in any       *)
(* order.  The methods that do not touch the store (_evaluate_condition,   *)
(* evaluate_conditions, execute_actions) are called on a new engine: the   *)
(* initial state draws the call and its arguments, the action applies it.  *)
(***************************************************************************)
NoCall == [op |-> "__init__", done |-> TRUE]

\* No rules file has been written.
NoFile == [exists |-> FALSE]

PureCalls ==
    { [op |-> "_evaluate_condition", done |-> FALSE, condition |-> c, context |-> x] :
          c \in ConditionInputs, x \in Contexts }
    \cup
    { [op |-> "evaluate_conditions", done |-> FALSE, conditions |-> cs, context |-> x] :
          cs \in ConditionListInputs, x \in Contexts }
    \cup
    { [op |-> "execute_actions", done |-> FALSE, actions |-> as, context |-> x] :
          as \in ActionListInputs, x \in ActionContexts }

Init ==
    /\ now = 0
    /\ GrantsNotLoaded /\ MigrationNotLoaded /\ AuthenticatorNotLoaded
    /\ rules = <<>>
    /\ action_handlers = ActionType
    /\ call \in { NoCall } \cup PureCalls
    /\ ret = Return(PyNone)
    /\ added = <<>>
    /\ file = NoFile

EvaluateCondition ==
    /\ call.op = "_evaluate_condition" /\ ~call.done
    /\ call' = [call EXCEPT !.done = TRUE]
    /\ ret' = _evaluate_condition(call.condition, call.context)
    /\ UNCHANGED <<rules, action_handlers, added, file>>
    /\ UNCHANGED outside_engine

EvaluateConditions ==
    /\ call.op = "evaluate_conditions" /\ ~call.done
    /\ call' = [call EXCEPT !.done = TRUE]
    /\ ret' = evaluate_conditions(call.conditions, call.context)
    /\ UNCHANGED <<rules, action_handlers, added, file>>
    /\ UNCHANGED outside_engine

ExecuteActions ==
    /\ call.op = "execute_actions" /\ ~call.done
    /\ call' = [call EXCEPT !.done = TRUE]
    /\ ret' = execute_actions(call.actions, call.context, action_handlers)
    /\ UNCHANGED <<rules, action_handlers, added, file>>
    /\ UNCHANGED outside_engine

\* Mutation of AddRule: the store keeps one rule per name.
AddRule_UniqueName(rule) ==
    /\ call.done
    /\ Len(rules) < MaxRules
    /\ LET taken == \E i \in 1..Len(rules) : rules[i].name = rule.name
           r == IF taken THEN [rules |-> rules, result |-> FALSE]
                ELSE add_rule(rules, rule)
       IN  /\ rules' = r.rules
           /\ ret' = Return(r.result)
           /\ added' = IF r.result THEN Append(added, rule) ELSE added
    /\ call' = [op |-> "add_rule", done |-> TRUE, rule |-> rule, before |-> rules]
    /\ UNCHANGED <<action_handlers, file>>
    /\ UNCHANGED outside_engine

AddRule(rule) ==
    /\ call.done
    /\ Len(rules) < MaxRules
    /\ LET r == add_rule(rules, rule)
       IN  /\ rules' = r.rules
           /\ ret' = Return(r.result)
           /\ added' = IF r.result THEN Append(added, rule) ELSE added
    /\ call' = [op |-> "add_rule", done |-> TRUE, rule |-> rule, before |-> rules]
    /\ UNCHANGED <<action_handlers, file>>
    /\ UNCHANGED outside_engine

\* The call repeats the completed call before it: process_rules with the same
\* arguments (no other call was made in between, so the store is the same).
Repeats(context, rule_types) ==
    /\ call.op = "process_rules" /\ call.done
    /\ call.context = context
    /\ call.rule_types = rule_types

\* Mutation of ProcessRules: the result list lives on the engine and is not
\* cleared between calls.
ProcessRules_Accumulate(context, rule_types) ==
    /\ call.done
    /\ call' = [op |-> "process_rules", done |-> TRUE,
                context |-> context, rule_types |-> rule_types,
                repeat |-> Repeats(context, rule_types),
                prior |-> IF Repeats(context, rule_types) THEN ret ELSE Return(PyNone)]
    /\ LET r == process_rules(rules, action_handlers, context, rule_types)
       IN  ret' = IF call.op = "process_rules" /\ ~ret.raised /\ ~r.raised
                  THEN Return(ret.value \o r.value)
                  ELSE r
    /\ UNCHANGED <<rules, action_handlers, added, file>>
    /\ UNCHANGED outside_engine

\* Mutation of ProcessRules: the loop consumes the store it iterates over.
ProcessRules_Consume(context, rule_types) ==
    /\ call.done
    /\ call' = [op |-> "process_rules", done |-> TRUE,
                context |-> context, rule_types |-> rule_types,
                repeat |-> Repeats(context, rule_types),
                prior |-> IF Repeats(context, rule_types) THEN ret ELSE Return(PyNone)]
    /\ ret' = process_rules(rules, action_handlers, context, rule_types)
    /\ rules' = <<>>
    /\ UNCHANGED <<action_handlers, added, file>>
    /\ UNCHANGED outside_engine

\* A process_rules call served on its own.  The call record keeps, for a
\* call that repeats the one before it, the outcome of that earlier call.
ProcessRules(context, rule_types) ==
    /\ call.done
    /\ call' = [op |-> "process_rules", done |-> TRUE,
                context |-> context, rule_types |-> rule_types,
                repeat |-> Repeats(context, rule_types),
                prior |-> IF Repeats(context, rule_types) THEN ret ELSE Return(PyNone)]
    /\ ret' = process_rules(rules, action_handlers, context, rule_types)
    /\ UNCHANGED <<rules, action_handlers, added, file>>
    /\ UNCHANGED outside_engine

\* RulesEngine(): a new engine, as the module constructs its global instance
\* when it is imported (at every start of the process) and as the rule-test
\* endpoint constructs one per request.  The rules file stays on disk.
NewEngine ==
    /\ call.done
    /\ rules' = <<>>
    /\ action_handlers' = ActionType
    /\ call' = NoCall
    /\ ret' = Return(PyNone)
    /\ added' = <<>>
    /\ UNCHANGED file
    /\ UNCHANGED outside_engine

\* The module-level loop that follows the construction of the global
\* instance: every rule of the default catalogue goes through add_rule.
SeedDefaults ==
    /\ call = NoCall /\ rules = <<>>
    /\ LET r == AddEach(rules, get_default_rules, 1)
       IN  /\ rules' = r.rules
           /\ added' = added \o r.accepted
           /\ call' = [op |-> "<module>", done |-> TRUE, results |-> r.results]
    /\ ret' = Return(PyNone)
    /\ UNCHANGED <<action_handlers, file>>
    /\ UNCHANGED outside_engine

\* rules_engine.get_all_rules(): the class RulesEngine defines no attribute
\* of that name (its methods are add_rule, _validate_rule,
\* evaluate_conditions, _evaluate_condition, execute_actions, _execute_action,
\* process_rules, the handlers, get_default_rules, load_rules_from_file and
\* save_rules_to_file), so the attribute lookup raises.
get_all_rules ==
    RaiseMsg("AttributeError", "'RulesEngine' object has no attribute 'get_all_rules'")

GetAllRules ==
    /\ call.done
    /\ call' = [op |-> "get_all_rules", done |-> TRUE]
    /\ ret' = get_all_rules
    /\ UNCHANGED <<rules, action_handlers, added, file>>
    /\ UNCHANGED outside_engine

\* The rules-engine check of the health endpoint.  status is the status the
\* earlier checks of the endpoint left; the response is reduced to status,
\* checks["rules_engine"] and the two dependencies entries of this check.
HealthCheck(status) ==
    /\ call.done
    /\ call' = [op |-> "health_check", done |-> TRUE, status |-> status]
    /\ LET r == get_all_rules
       IN  ret' = IF r.raised
                  THEN Return([status |-> "degraded",
                               rules_engine |-> "unhealthy",
                               dependencies |-> {"rules_error"},
                               rules_count |-> 0,
                               rules_error |-> r.msg])
                  ELSE Return([status |-> status,
                               rules_engine |-> "healthy",
                               dependencies |-> {"rules_count"},
                               rules_count |-> Len(r.value),
                               rules_error |-> ""])
    /\ UNCHANGED <<rules, action_handlers, added, file>>
    /\ UNCHANGED outside_engine

\* The engine is the global instance of the module: it was seeded with the
\* default catalogue before any other call.
IsGlobalEngine ==
    /\ Len(added) >= Len(get_default_rules)
    /\ SubSeq(added, 1, Len(get_default_rules)) = get_default_rules

\* Request bodies of POST /api/rules, as RuleCreate validates them: name and
\* rule_type are strings, conditions and actions are lists.
RuleCreateInputs ==
    { [name |-> r.name.s, rule_type |-> r.rule_type.s,
       conditions |-> r.conditions.items, actions |-> r.actions.items] :
          r \in ValidRuleInputs }

\* The rule dict the endpoint builds from the request body.
RuleOfRequest(rule_data) ==
    WithDescription(Rule(PyStr(rule_data.name), PyStr(rule_data.rule_type),
                         ListOf(rule_data.conditions), ListOf(rule_data.actions)))

\* The response of an endpoint: the status code and the JSON body.
Response(code, body) == Return([status_code |-> code, body |-> body])

\* Mutation of CreateRule: the role of the user is not checked.
CreateRule_NoRoleCheck(role, rule_data) ==
    /\ call.done
    /\ IsGlobalEngine
    /\ Len(rules) < Len(get_default_rules) + MaxCreated
    /\ call' = [op |-> "create_rule", done |-> TRUE, role |-> role,
                rule_data |-> rule_data, before |-> rules]
    /\ LET rule == RuleOfRequest(rule_data)
           r == add_rule(rules, rule)
       IN  /\ rules' = r.rules
           /\ added' = IF r.result THEN Append(added, rule) ELSE added
           /\ ret' = IF r.result
                      THEN Response(200, [message |-> "Rule created successfully",
                                          rule |-> rule])
                      ELSE Response(400, [detail |-> "Failed to create rule"])
    /\ UNCHANGED <<action_handlers, file>>
    /\ UNCHANGED outside_engine

\* POST /api/rules by an authenticated user of the given role.
CreateRule(role, rule_data) ==
    /\ call.done
    /\ IsGlobalEngine
    /\ role = "admin" => Len(rules) < Len(get_default_rules) + MaxCreated
    /\ call' = [op |-> "create_rule", done |-> TRUE, role |-> role,
                rule_data |-> rule_data, before |-> rules]
    /\ IF role # "admin"
       THEN /\ ret' = Response(403, [detail |-> "Admin access required"])
            /\ UNCHANGED <<rules, added>>
       ELSE LET rule == RuleOfRequest(rule_data)
                r == add_rule(rules, rule)
            IN  /\ rules' = r.rules
                /\ added' = IF r.result THEN Append(added, rule) ELSE added
                /\ ret' = IF r.result
                           THEN Response(200, [message |-> "Rule created successfully",
                                               rule |-> rule])
                           ELSE Response(400, [detail |-> "Failed to create rule"])
    /\ UNCHANGED <<action_handlers, file>>
    /\ UNCHANGED outside_engine

Next ==
    \/ EvaluateCondition
    \/ EvaluateConditions
    \/ ExecuteActions
    \/ \E rule \in RuleInputs : AddRule(rule)
    \/ \E context \in Contexts, rule_types \in RuleTypesInputs :
           ProcessRules(context, rule_types)

Spec == Init /\ [][Next]_vars

(***************************************************************************)
(* The global engine of the module, as the endpoints of main.py use it:    *)
(* it is constructed and seeded when the process starts, then rules are    *)
(* created and processed and the health of the engine is checked.          *)
(***************************************************************************)
InitGlobal == Init /\ call = NoCall

NextGlobal ==
    \/ NewEngine
    \/ SeedDefaults
    \/ \E context \in Contexts \cup ApprovalContexts \cup ProjectContexts
                            \cup GrantContexts,
          rule_types \in RuleTypesInputs :
           ProcessRules(context, rule_types)
    \/ GetAllRules
    \/ \E status \in {"healthy", "degraded"} : HealthCheck(status)
    \/ \E role \in {"admin", "member"}, rule_data \in RuleCreateInputs :
           CreateRule(role, rule_data)

SpecGlobal == InitGlobal /\ [][NextGlobal]_vars

(***************************************************************************)
(* The engine and its rules file: rules are added, processed, saved to     *)
(* the file and loaded from it, by this engine or by a new one.            *)
(***************************************************************************)
SaveRulesToFile(file_path) ==
    /\ call.done
    /\ LET r == save_rules_to_file(rules, file, file_path)
       IN  /\ file' = r.file
           /\ ret' = Return(r.result)
    /\ call' = [op |-> "save_rules_to_file", done |-> TRUE, file_path |-> file_path]
    /\ UNCHANGED <<rules, action_handlers, added>>
    /\ UNCHANGED outside_engine

LoadRulesFromFile(file_path) ==
    /\ call.done
    /\ LET r == load_rules_from_file(rules, file, file_path)
       IN  /\ Len(r.rules) <= MaxRules
           /\ rules' = r.rules
           /\ added' = added \o r.accepted
           /\ ret' = Return(r.result)
    /\ call' = [op |-> "load_rules_from_file", done |-> TRUE,
                file_path |-> file_path, before |-> rules]
    /\ UNCHANGED <<action_handlers, file>>
    /\ UNCHANGED outside_engine

\* The rules, the context and the filter of this specification.
FileRuleInputs == { WithDescription(CriticalBugHotfix), FailingAction, MissingActions }
FileContexts == { [user_role |-> PyStr("member")] }
FileRuleTypes == { PyNone, PyList(<<PyStr("workflow")>>) }

InitFile == Init /\ call = NoCall

NextFile ==
    \/ \E rule \in FileRuleInputs : AddRule(rule)
    \/ \E context \in FileContexts, rule_types \in FileRuleTypes :
           ProcessRules(context, rule_types)
    \/ \E file_path \in PathInputs : SaveRulesToFile(file_path)
    \/ \E file_path \in PathInputs : LoadRulesFromFile(file_path)
    \/ NewEngine

SpecFile == InitFile /\ [][NextFile]_vars

(***************************************************************************)
(* Requests served concurrently.  The endpoints are plain functions, which *)
(* the framework runs on worker threads, so an add_rule call of one        *)
(* request can run between any two steps of the process_rules call of      *)
(* another.  The interpreter runs one bytecode at a time: list.append and  *)
(* each step of the list iterator are atomic.  The iterator of             *)
(* `for rule in self.rules` keeps the index of the next element and stops  *)
(* when the index reaches the length the list has at that moment.          *)
(*                                                                         *)
(* The record of the running call keeps the iterator index i and the       *)
(* result list, and as history the store at the start of the call, the     *)
(* rules the loop has evaluated and the rules accepted while it ran.       *)
(***************************************************************************)
ProcessBegin(context, rule_types) ==
    /\ call.done
    /\ call' = [op |-> "process_rules", done |-> FALSE,
                context |-> context, rule_types |-> rule_types,
                repeat |-> FALSE, prior |-> Return(PyNone),
                i |-> 0, exhausted |-> FALSE, results |-> <<>>,
                start |-> rules, evaluated |-> <<>>, during |-> <<>>]
    /\ ret' = Return(PyNone)
    /\ UNCHANGED <<rules, action_handlers, added, file>>
    /\ UNCHANGED outside_engine

\* One step of the for loop: the iterator yields the next stored rule, if
\* there is one, and the loop body runs on it; an exception raised by the
\* body ends the call.
ProcessIterate ==
    /\ call.op = "process_rules" /\ ~call.done /\ ~call.exhausted
    /\ IF call.i < Len(rules)
       THEN LET rule == rules[call.i + 1]
                r == ProcessLoop(<<rule>>, action_handlers, call.context,
                                 call.rule_types, 1, <<>>)
            IN  IF r.raised
                THEN /\ call' = [call EXCEPT !.done = TRUE, !.i = @ + 1,
                                             !.evaluated = Append(@, rule)]
                     /\ ret' = r
                ELSE /\ call' = [call EXCEPT !.i = @ + 1,
                                             !.evaluated = Append(@, rule),
                                             !.results = @ \o r.value]
                     /\ UNCHANGED ret
       ELSE /\ call' = [call EXCEPT !.exhausted = TRUE]
            /\ UNCHANGED ret
    /\ UNCHANGED <<rules, action_handlers, added, file>>
    /\ UNCHANGED outside_engine

\* return results
ProcessReturn ==
    /\ call.op = "process_rules" /\ ~call.done /\ call.exhausted
    /\ call' = [call EXCEPT !.done = TRUE]
    /\ ret' = Return(call.results)
    /\ UNCHANGED <<rules, action_handlers, added, file>>
    /\ UNCHANGED outside_engine

\* Mutation of ConcurrentAddRule: the rule is inserted at the head of the
\* list.
ConcurrentAddRule_InsertFirst(rule) ==
    /\ call.op = "process_rules" /\ ~call.done
    /\ Len(rules) < MaxRules
    /\ LET r == add_rule_Prepend(rules, rule)
       IN  /\ rules' = r.rules
           /\ added' = IF r.result THEN Append(added, rule) ELSE added
           /\ call' = [call EXCEPT !.during = IF r.result THEN Append(@, rule) ELSE @]
    /\ UNCHANGED <<action_handlers, ret, file>>
    /\ UNCHANGED outside_engine

\* add_rule, called by another request while process_rules is running.
ConcurrentAddRule(rule) ==
    /\ call.op = "process_rules" /\ ~call.done
    /\ Len(rules) < MaxRules
    /\ LET r == add_rule(rules, rule)
       IN  /\ rules' = r.rules
           /\ added' = IF r.result THEN Append(added, rule) ELSE added
           /\ call' = [call EXCEPT !.during = IF r.result THEN Append(@, rule) ELSE @]
    /\ UNCHANGED <<action_handlers, ret, file>>
    /\ UNCHANGED outside_engine

\* The rules, the contexts and the filters of this specification.
ConcurrentRuleInputs ==
    { HighValueProjectApproval, AlwaysWorkflow, MalformedCondition, MissingActions }
ConcurrentContexts ==
    { [project_amount |-> PyInt(15000), user_role |-> PyStr("member")],
      [project_amount |-> PyInt(5000), user_role |-> PyStr("member")] }
ConcurrentRuleTypes == { PyNone, PyList(<<PyStr("workflow")>>) }

InitConcurrent == Init /\ call = NoCall

NextConcurrent ==
    \/ \E rule \in ConcurrentRuleInputs : AddRule(rule)
    \/ \E context \in ConcurrentContexts, rule_types \in ConcurrentRuleTypes :
           ProcessBegin(context, rule_types)
    \/ ProcessIterate
    \/ ProcessReturn
    \/ \E rule \in ConcurrentRuleInputs : ConcurrentAddRule(rule)

SpecConcurrent == InitConcurrent /\ [][NextConcurrent]_vars

(***************************************************************************)
(* An engine whose callers reuse rule names: two of the rules added are    *)
(* named "Always".                                                         *)
(***************************************************************************)
DuplicateRuleInputs ==
    { AlwaysWorkflow, AlwaysNotify, HighValueProjectApproval, MissingActions }

InitDuplicates == Init /\ call = NoCall

NextDuplicates ==
    \/ \E rule \in DuplicateRuleInputs : AddRule(rule)
    \/ \E context \in ConcurrentContexts, rule_types \in ConcurrentRuleTypes :
           ProcessRules(context, rule_types)

SpecDuplicates == InitDuplicates /\ [][NextDuplicates]_vars

(***************************************************************************)
(* Operators over operands of every kind.                                  *)
(*                                                                         *)
(* _evaluate_condition is called with the equality and membership          *)
(* operators, and with operators the engine does not define, on scalars,   *)
(* strings, lists and dicts; rules with such conditions are added to an    *)
(* engine and processed.                                                   *)
(***************************************************************************)
OperandInputs ==
    { PyNone, PyBool(TRUE), PyInt(1), PyInt(2),
      PyStr(""), PyStr("adm"), PyStr("admin"),
      PyList(<<>>), PyList(<<PyStr("admin"), PyInt(1)>>),
      PyList(<<PyList(<<>>), PyNone>>),
      PyEmptyDict, PyDict([admin |-> PyInt(1)]), PyDict([admin |-> PyBool(TRUE)]) }

\* The operators of equality and membership.
MembershipOperators ==
    { "equals", "not_equals", "contains", "not_contains", "in", "not_in" }

\* Operator entries that are none of the thirteen operator strings: another
\* word, another spelling, a number, and a missing operator.
UnknownOperatorInputs ==
    { PyStr("between"), PyStr("EQUALS"), PyInt(1), PyNone }

OperandContexts ==
    { [subject |-> v] : v \in OperandInputs } \cup { <<>> }

OperandConditions ==
    { Cond(f, o, v) : f \in { PyStr("subject"), PyNone },
                      o \in { PyStr(op) : op \in MembershipOperators }
                                \cup UnknownOperatorInputs,
                      v \in OperandInputs }

OperatorCalls ==
    { [op |-> "_evaluate_condition", done |-> FALSE, condition |-> c, context |-> x] :
          c \in OperandConditions, x \in OperandContexts }

\* Rules whose only condition has an undefined operator, on a field the
\* contexts have and on one they lack.
UnknownOperatorRule ==
    Rule(PyStr("Unknown Operator"), PyStr("workflow"),
         ListOf(<<Cond(PyStr("user_role"), PyStr("between"), PyStr("admin"))>>),
         ListOf(<<Action(PyStr("log_event"), Params(<<>>))>>))
MisspeltOperatorRule ==
    Rule(PyStr("Misspelt Operator"), PyStr("project_approval"),
         ListOf(<<Cond(PyStr("project_amount"), PyStr("greater_than"), PyInt(10000)),
                  Cond(PyStr("missing"), PyStr("NOT_EXISTS"), PyNone)>>),
         ListOf(<<Action(PyStr("log_event"), Params(<<>>))>>))

OperatorRuleInputs ==
    { UnknownOperatorRule, MisspeltOperatorRule, HighValueProjectApproval,
      AlwaysWorkflow }
OperatorContexts ==
    { [project_amount |-> PyInt(15000), user_role |-> PyStr("member")],
      [project_amount |-> PyInt(15000), user_role |-> PyStr("admin")],
      <<>> }
OperatorRuleTypes == { PyNone, PyList(<<PyStr("workflow")>>) }

InitOperators ==
    /\ now = 0
    /\ GrantsNotLoaded /\ MigrationNotLoaded /\ AuthenticatorNotLoaded
    /\ rules = <<>>
    /\ action_handlers = ActionType
    /\ call \in { NoCall } \cup OperatorCalls
    /\ ret = Return(PyNone)
    /\ added = <<>>
    /\ file = NoFile

NextOperators ==
    \/ EvaluateCondition
    \/ \E rule \in OperatorRuleInputs : AddRule(rule)
    \/ \E context \in OperatorContexts, rule_types \in OperatorRuleTypes :
           ProcessRules(context, rule_types)

SpecOperators == InitOperators /\ [][NextOperators]_vars

(***************************************************************************)
(* grants.py: applications and answers.                                    *)
(*                                                                         *)
(* The fields of the pydantic models are plain values here: strings,       *)
(* integers (amounts in dollars, instants in seconds) and lists.  The k-th *)
(* uuid4 the stores have drawn is written k: uuids are distinct.           *)
(***************************************************************************)
BUDGET_MIN == 100
BUDGET_MAX == 50000

\* str(uuid.uuid4()) for a new entry of the stores.
NewUuid == Len(applications_db) + Len(answers_db) + 1

\* The fields on which GrantApplication(...) fails validation: title has
\* min_length=5 and max_length=200, budget has gt=0 and the validator
\* validate_budget, which runs when gt=0 has passed.
GrantApplicationErrors(app) ==
    { f \in {"title"} : Len(Chars(app.title)) < 5 \/ Len(Chars(app.title)) > 200 }
        \cup { f \in {"budget"} :
                  \/ ~(app.budget > 0)
                  \/ ~(BUDGET_MIN <= app.budget /\ app.budget <= BUDGET_MAX) }

\* GrantApplication(**fields): the model object, or ValidationError.
GrantApplication(app) ==
    IF GrantApplicationErrors(app) # {}
    THEN RaiseMsg("ValidationError", "validation error for GrantApplication")
    ELSE Return(app)

\* create_application: the outcome and the application store after it.
create_application(db, id, grant_id, title, assigned_to, collaborators, at) ==
    LET application ==
            GrantApplication([id |-> id,
                              grant_id |-> grant_id,
                              title |-> title,
                              status |-> "draft",
                              priority |-> "medium",
                              assigned_to |-> assigned_to,
                              collaborators |-> collaborators,
                              answers |-> <<>>,
                              documents |-> <<>>,
                              budget |-> 0,
                              timeline |-> "",
                              impact_statement |-> "",
                              created_at |-> at,
                              updated_at |-> at,
                              submitted_at |-> "None"])
    IN  IF application.raised
        THEN [applications_db |-> db, result |-> application]
        ELSE [applications_db |-> Append(db, application.value), result |-> application]

\* The first of the places found in a list, 0 if none was found.
FirstIndex(found) ==
    IF found = {} THEN 0 ELSE CHOOSE i \in found : \A j \in found : i <= j

\* get_application_by_id: the first application of that id, or None.
get_application_by_id(db, application_id) ==
    LET i == FirstIndex({ k \in 1..Len(db) : db[k].id = application_id })
    IN  IF i = 0 THEN Return("None") ELSE Return(db[i])

\* update_application_answer: the loop stops at the first stored answer of
\* the application and question, and the new answer has that answer's
\* version plus one; the new answer is appended, and the first application
\* of that id gets the answer text.
update_application_answer(answers, applications, id, application_id, question, answer, author, at) ==
    LET existing_answer ==
            FirstIndex({ k \in 1..Len(answers) :
                            /\ answers[k].application_id = application_id
                            /\ answers[k].question = question })
        new_answer == [id |-> id, application_id |-> application_id,
                       question |-> question, answer |-> answer, author |-> author,
                       version |-> IF existing_answer # 0
                                   THEN answers[existing_answer].version + 1
                                   ELSE 1,
                       created_at |-> at, updated_at |-> at]
        a == FirstIndex({ k \in 1..Len(applications) :
                             applications[k].id = application_id })
    IN  [answers_db |-> Append(answers, new_answer),
         applications_db |->
             IF a = 0 THEN applications
             ELSE [applications EXCEPT
                      ![a].answers = [q \in DOMAIN @ \cup {question} |->
                                         IF q = question THEN answer ELSE @[q]],
                      ![a].updated_at = at],
         result |-> Return(new_answer)]

\* submit_application: the first application of that id becomes submitted.
submit_application(db, application_id, at) ==
    LET i == FirstIndex({ k \in 1..Len(db) : db[k].id = application_id })
    IN  IF i = 0 THEN [applications_db |-> db, result |-> Return(FALSE)]
        ELSE [applications_db |-> [db EXCEPT ![i].status = "submitted",
                                             ![i].submitted_at = at,
                                             ![i].updated_at = at],
              result |-> Return(TRUE)]

\* Arguments of the calls.
GrantIdInputs == { "grant_001" }
TitleInputs == { "Short Film Fund", "Film" }
UserInputs == { "alice" }
ApplicationIdInputs == { 1, 2 }
QuestionInputs == { "budget", "impact" }
AnswerInputs == { "first draft", "revised" }

\* The clock moves on.
Tick ==
    /\ now < MaxTime
    /\ now' = now + 1
    /\ UNCHANGED <<engine_vars, call, ret, grants_vars, migration_vars,
                   authenticator_vars>>

CreateApplication(grant_id, title, assigned_to) ==
    /\ LET r == create_application(applications_db, NewUuid, grant_id, title,
                                   assigned_to, <<>>, now)
       IN  /\ applications_db' = r.applications_db
           /\ ret' = r.result
    /\ call' = [op |-> "create_application", done |-> TRUE, grant_id |-> grant_id,
                title |-> title, assigned_to |-> assigned_to,
                before |-> applications_db]
    /\ UNCHANGED <<engine_vars, now, SAMPLE_GRANTS, answers_db, cache,
                   performance_metrics, migration_vars, authenticator_vars>>

GetApplicationById(application_id) ==
    /\ ret' = get_application_by_id(applications_db, application_id)
    /\ call' = [op |-> "get_application_by_id", done |-> TRUE,
                application_id |-> application_id]
    /\ UNCHANGED <<engine_vars, now, grants_vars, migration_vars, authenticator_vars>>

UpdateApplicationAnswer(application_id, question, answer, author) ==
    /\ Len(answers_db) < MaxAnswers
    /\ LET r == update_application_answer(answers_db, applications_db, NewUuid,
                                          application_id, question, answer, author, now)
       IN  /\ answers_db' = r.answers_db
           /\ applications_db' = r.applications_db
           /\ ret' = r.result
    /\ call' = [op |-> "update_application_answer", done |-> TRUE,
                application_id |-> application_id, question |-> question,
                answer |-> answer, author |-> author, before |-> answers_db]
    /\ UNCHANGED <<engine_vars, now, SAMPLE_GRANTS, cache, performance_metrics,
                   migration_vars, authenticator_vars>>

SubmitApplication(application_id) ==
    /\ LET r == submit_application(applications_db, application_id, now)
       IN  /\ applications_db' = r.applications_db
           /\ ret' = r.result
    /\ call' = [op |-> "submit_application", done |-> TRUE,
                application_id |-> application_id]
    /\ UNCHANGED <<engine_vars, now, SAMPLE_GRANTS, answers_db, cache,
                   performance_metrics, migration_vars, authenticator_vars>>

\* grants.py is loaded: the stores are empty lists.
InitApplications ==
    /\ EngineNotLoaded /\ MigrationNotLoaded /\ AuthenticatorNotLoaded
    /\ now = 0
    /\ call = [op |-> "<module>", done |-> TRUE]
    /\ ret = Return("None")
    /\ SAMPLE_GRANTS = <<>>
    /\ applications_db = <<>>
    /\ answers_db = <<>>
    /\ cache = <<>>
    /\ performance_metrics = <<>>

NextApplications ==
    \/ Tick
    \/ \E grant_id \in GrantIdInputs, title \in TitleInputs, assigned_to \in UserInputs :
           CreateApplication(grant_id, title, assigned_to)
    \/ \E application_id \in ApplicationIdInputs : GetApplicationById(application_id)
    \/ \E application_id \in ApplicationIdInputs, question \in QuestionInputs,
          answer \in AnswerInputs, author \in UserInputs :
           UpdateApplicationAnswer(application_id, question, answer, author)
    \/ \E application_id \in ApplicationIdInputs : SubmitApplication(application_id)

SpecApplications == InitApplications /\ [][NextApplications]_vars

(***************************************************************************)
(* grants.py: the catalogue search.                                        *)
(*                                                                         *)
(* Instants are seconds since 2025-01-01 00:00; amounts are whole dollars  *)
(* (every amount of the catalogue is).  Of a grant, the fields that the    *)
(* search reads or that validation can reject are modelled.  The average   *)
(* response time of the performance metrics is measured wall time and is   *)
(* left out; the request and cache counters are modelled.                  *)
(***************************************************************************)
GRANT_AMOUNT_MIN == 1000
GRANT_AMOUNT_MAX == 1000000
max_results_per_page == 100
cache_ttl_seconds == 300
Day == 86400

\* SAMPLE_GRANTS as the module builds it when it is loaded at loaded_at: the
\* rolling deadlines are a number of days after that instant, the others are
\* dates.  Instants are seconds since 2025-01-01 00:00.
Catalogue(loaded_at) ==
    <<[id |-> "grant_001",
        title |-> "Victorian Creative Industries Grant",
        description |->
          "Supporting creative projects that contribute to Victoria's cultural landscape",
        amount |-> 50000,
        deadline |-> loaded_at + 30 * Day,
        category |-> "arts_culture",
        created_at |-> loaded_at],
      [id |-> "grant_002",
        title |-> "Community Impact Fund",
        description |->
          "Supporting community projects that create positive social impact",
        amount |-> 25000,
        deadline |-> loaded_at + 45 * Day,
        category |-> "community",
        created_at |-> loaded_at],
      [id |-> "grant_003",
        title |-> "Youth Innovation Grant",
        description |->
          "Supporting innovative projects led by young people",
        amount |-> 15000,
        deadline |-> loaded_at + 60 * Day,
        category |-> "youth",
        created_at |-> loaded_at],
      [id |-> "grant_004",
        title |-> "Screen Australia Documentary Production Fund",
        description |->
          "Supporting quality documentary production with cultural value and innovation. Based on real Screen Australia funding program for documentary production with up to $500,000 available.",
        amount |-> 500000,
        deadline |-> 23130000,  \* 2025-09-25 17:00
        category |-> "arts_culture",
        created_at |-> loaded_at],
      [id |-> "grant_005",
        title |-> "Screen Australia First Nations Documentary",
        description |->
          "Supporting First Nations storytelling and documentary content creation. Dedicated funding for First Nations filmmakers and content creators.",
        amount |-> 400000,
        deadline |-> loaded_at + 90 * Day,
        category |-> "indigenous",
        created_at |-> loaded_at],
      [id |-> "grant_006",
        title |-> "Australia Council for the Arts Project Grants",
        description |->
          "Supporting arts projects and creative development across all art forms. Based on real Australia Council funding for arts projects up to $100,000.",
        amount |-> 100000,
        deadline |-> loaded_at + 120 * Day,
        category |-> "arts_culture",
        created_at |-> loaded_at],
      [id |-> "grant_007",
        title |-> "Department of Industry Innovation Fund",
        description |->
          "Supporting innovation and technology development projects. Based on real Australian government innovation funding programs.",
        amount |-> 200000,
        deadline |-> 34189200,  \* 2026-01-31 17:00
        category |-> "technology",
        created_at |-> loaded_at],
      [id |-> "grant_008",
        title |-> "Indigenous Business Australia Grant",
        description |->
          "Supporting Indigenous business development and entrepreneurship. Dedicated funding for Indigenous business growth and development.",
        amount |-> 75000,
        deadline |-> 36608400,  \* 2026-02-28 17:00
        category |-> "indigenous",
        created_at |-> loaded_at],
      [id |-> "grant_009",
        title |-> "Creative Victoria Enhanced Creative Industries Grant",
        description |->
          "Enhanced funding for creative projects that significantly contribute to Victoria's cultural landscape and creative economy.",
        amount |-> 75000,
        deadline |-> 24858000,  \* 2025-10-15 17:00
        category |-> "arts_culture",
        created_at |-> loaded_at],
      [id |-> "grant_010",
        title |-> "Community Development and Social Impact Grant",
        description |->
          "Supporting community development projects that create measurable social impact and community benefit.",
        amount |-> 35000,
        deadline |-> 28832400,  \* 2025-11-30 17:00
        category |-> "community",
        created_at |-> loaded_at] >>

\* str.lower() on code points.
Lower(str) == [i \in DOMAIN str |-> IF str[i] >= 65 /\ str[i] <= 90 THEN str[i] + 32 ELSE str[i]]

\* The fields on which Grant(**grant_data) fails validation at the instant
\* at: the lengths of title and description, amount (gt=0, validate_amount)
\* and validate_deadline, which wants the deadline after utcnow().
GrantErrors(grant_data, at) ==
    { f \in {"title"} : \/ Len(Chars(grant_data.title)) < 5
                        \/ Len(Chars(grant_data.title)) > 200 }
        \cup { f \in {"description"} : \/ Len(Chars(grant_data.description)) < 10
                                      \/ Len(Chars(grant_data.description)) > 2000 }
        \cup { f \in {"amount"} : \/ ~(grant_data.amount > 0)
                                 \/ ~(/\ GRANT_AMOUNT_MIN <= grant_data.amount
                                      /\ grant_data.amount <= GRANT_AMOUNT_MAX) }
        \cup { f \in {"deadline"} : grant_data.deadline <= at }

\* Grant(**grant_data): the model object, or ValidationError.
Grant(grant_data, at) ==
    IF GrantErrors(grant_data, at) # {}
    THEN RaiseMsg("ValidationError", "validation error for Grant")
    ELSE Return(grant_data)

\* The arguments of search_grants: keywords and category are a string or
\* None, the amounts a number or None, deadline_before a datetime (its
\* instant) or None, and limit is an integer.
Query(keywords, category, min_amount, max_amount, deadline_before, limit) ==
    [keywords |-> keywords, category |-> category, min_amount |-> min_amount,
     max_amount |-> max_amount, deadline_before |-> deadline_before, limit |-> limit]

\* The filters of the search loop: the grant is skipped (continue).
Skipped(grant, q) ==
    \/ /\ q.keywords.t = "str" /\ q.keywords.s # ""
       /\ ~IsSubstring(Lower(Chars(q.keywords.s)), Lower(Chars(grant.title)))
       /\ ~IsSubstring(Lower(Chars(q.keywords.s)), Lower(Chars(grant.description)))
    \/ q.category.t = "str" /\ q.category.s # "" /\ grant.category # q.category.s
    \/ q.min_amount.t # "none" /\ grant.amount < q.min_amount.n
    \/ q.max_amount.t # "none" /\ grant.amount > q.max_amount.n
    \/ q.deadline_before.t # "none" /\ grant.deadline > q.deadline_before.n

\* The search loop from the i-th grant of the catalogue on: each grant is
\* validated, filtered and appended, and the loop ends once the results
\* have reached the limit, which is tested after an append.
RECURSIVE SearchLoop(_, _, _, _, _)
SearchLoop(grants, i, results, q, at) ==
    IF i > Len(grants) THEN Return(results)
    ELSE LET grant == Grant(grants[i], at)
         IN  IF grant.raised THEN grant
             ELSE IF Skipped(grant.value, q)
                  THEN SearchLoop(grants, i + 1, results, q, at)
                  ELSE IF Len(results) + 1 >= q.limit
                       THEN Return(Append(results, grant.value))
                       ELSE SearchLoop(grants, i + 1, Append(results, grant.value), q, at)

\* The validation of the amounts at the head of search_grants.
InvalidAmount(amount) ==
    amount.t # "none" /\ (amount.n < 0 \/ amount.n > GRANT_AMOUNT_MAX)

\* The query with the limit capped, which is what the cache key is made of.
Capped(q) ==
    [q EXCEPT !.limit = IF @ > max_results_per_page THEN max_results_per_page ELSE @]

\* _log_performance: one more request.
Logged(metrics) == [metrics EXCEPT !.total_requests = @ + 1]

\* _get_cached_data: [hit, data, cache, metrics]; on a miss nothing is
\* returned, and an expired entry is removed.
GetCachedData(c, metrics, key, at) ==
    IF key \in DOMAIN c /\ at - c[key].timestamp < cache_ttl_seconds
    THEN [hit |-> TRUE, data |-> c[key].data, cache |-> c,
          metrics |-> [metrics EXCEPT !.cache_hits = @ + 1]]
    ELSE [hit |-> FALSE, data |-> <<>>,
          cache |-> [k \in DOMAIN c \ {key} |-> c[k]],
          metrics |-> [metrics EXCEPT !.cache_misses = @ + 1]]

\* _set_cached_data
SetCachedData(c, key, data, at) ==
    [k \in DOMAIN c \cup {key} |->
        IF k = key THEN [data |-> data, timestamp |-> at] ELSE c[k]]

\* search_grants at the instant at: [result, cache, metrics].
search_grants(grants, c, metrics, q, at) ==
    IF InvalidAmount(q.min_amount)
    THEN [result |-> RaiseMsg("ValueError", "Invalid min_amount"),
          cache |-> c, metrics |-> Logged(metrics)]
    ELSE IF InvalidAmount(q.max_amount)
    THEN [result |-> RaiseMsg("ValueError", "Invalid max_amount"),
          cache |-> c, metrics |-> Logged(metrics)]
    ELSE LET key == Capped(q)
             cached == GetCachedData(c, metrics, key, at)
         IN  IF cached.hit /\ cached.data # <<>>
             THEN [result |-> Return(cached.data), cache |-> cached.cache,
                   metrics |-> Logged(cached.metrics)]
             ELSE LET results == SearchLoop(grants, 1, <<>>, key, at)
                  IN  IF results.raised
                      THEN [result |-> results, cache |-> cached.cache,
                            metrics |-> Logged(cached.metrics)]
                      ELSE [result |-> results,
                            cache |-> SetCachedData(cached.cache, key, results.value, at),
                            metrics |-> Logged(cached.metrics)]

\* The instant at which grants.py was loaded.
LoadedAt == SAMPLE_GRANTS[1].created_at

\* The module is loaded on 2025-08-01 or on 2026-11-01.
ImportTimes == { 18316800, 57801600 }

\* Instants the clock is read at after the load: within the lifetime of a
\* cache entry, after it, and after the first rolling deadline.
ClockInputs == { LoadedAt + 100, LoadedAt + 400, LoadedAt + 31 * Day }

\* Queries: every combination of one value or none per filter with four
\* limits, and some more keywords, amounts and limits on their own.
QueryInputs ==
    { Query(k, c, lo, hi, d, l) :
          k \in { PyNone, PyStr("youth") },
          c \in { PyNone, PyStr("arts_culture") },
          lo \in { PyNone, PyInt(50000) },
          hi \in { PyNone, PyInt(75000) },
          d \in { PyNone, PyDatetime(LoadedAt + 50 * Day) },
          l \in { 0, 1, max_results_per_page, max_results_per_page + 1 } }
    \cup
    { Query(k, PyNone, PyNone, PyNone, PyNone, 3) :
          k \in { PyStr(""), PyStr("Screen"), PyStr("GRANT"), PyStr("zebra") } }
    \cup
    { Query(PyNone, PyNone, lo, hi, PyNone, l) :
          lo \in { PyInt(0), PyInt(0 - 1) },
          hi \in { PyInt(0), PyInt(GRANT_AMOUNT_MAX + 1) },
          l \in { 0 - 1, 2 } }

\* The clock moves on to a later instant.
AdvanceTo(t) ==
    /\ t > now
    /\ now' = t
    /\ UNCHANGED <<engine_vars, call, ret, grants_vars, migration_vars,
                   authenticator_vars>>

SearchGrants(q) ==
    /\ performance_metrics.total_requests < MaxSearches
    /\ Capped(q) \in DOMAIN cache \/ Cardinality(DOMAIN cache) < MaxCached
    /\ LET r == search_grants(SAMPLE_GRANTS, cache, performance_metrics, q, now)
       IN  /\ ret' = r.result
           /\ cache' = r.cache
           /\ performance_metrics' = r.metrics
    /\ call' = [op |-> "search_grants", done |-> TRUE, q |-> q, at |-> now]
    /\ UNCHANGED <<engine_vars, now, SAMPLE_GRANTS, applications_db, answers_db,
                   migration_vars, authenticator_vars>>

\* grants.py is loaded: the catalogue is built, the service has an empty
\* cache and its counters are 0.
InitSearch ==
    /\ EngineNotLoaded /\ MigrationNotLoaded /\ AuthenticatorNotLoaded
    /\ now \in ImportTimes
    /\ SAMPLE_GRANTS = Catalogue(now)
    /\ applications_db = <<>>
    /\ answers_db = <<>>
    /\ cache = <<>>
    /\ performance_metrics = [total_requests |-> 0, cache_hits |-> 0, cache_misses |-> 0]
    /\ call = [op |-> "<module>", done |-> TRUE]
    /\ ret = Return(<<>>)

NextSearch ==
    \/ \E t \in ClockInputs : AdvanceTo(t)
    \/ \E q \in QueryInputs : SearchGrants(q)

SpecSearch == InitSearch /\ [][NextSearch]_vars


(***************************************************************************)
(* migration_strategy.py: the migration to real data                       *)
(*                                                                         *)
(* execute_migration runs its steps one after the other.  What a step      *)
(* finds (data sources, their data and its quality, connections) is the    *)
(* environment's: each step helper is given its outcome, "ok", "failed"    *)
(* when it returns without success, or "exception" when its own except     *)
(* clause returns the failure.  The identifier and the instants of a       *)
(* report are left out.                                                    *)
(***************************************************************************)

\* DataEnvironment (config.py).
DataEnvironment == { "development", "testing", "staging", "production" }

\* DataMigrationStrategy.migration_steps.
migration_steps ==
    << "validate_current_data", "backup_test_data", "configure_real_sources",
       "test_real_connections", "migrate_data_sources", "validate_migration",
       "update_documentation" >>

\* What a step helper returns, and the two dictionaries after it.
HelperResult(success, error_message, backup, rollback) ==
    [success |-> success, error_message |-> error_message,
     backup_data |-> backup, rollback_data |-> rollback]

\* The class of the data source DataSourceFactory creates for an environment.
SourceClass(environment) ==
    IF environment \in {"production", "staging"}
    THEN "RealAPIDataSource" ELSE "MockDataSource"

_validate_current_data(outcome, backup, rollback) ==
    CASE outcome = "ok" -> HelperResult(TRUE, "None", backup, rollback)
      [] outcome = "failed" ->
            HelperResult(FALSE, "Data quality below threshold", backup, rollback)
      [] outcome = "exception" ->
            HelperResult(FALSE, "Data validation failed", backup, rollback)

\* The grants are stored before the applications are read: an exception
\* while the applications are read ("exception_late") leaves the grants in
\* backup_data.
_backup_test_data(outcome, backup, rollback) ==
    CASE outcome = "ok" ->
            HelperResult(TRUE, "None", backup \cup {"grants", "applications"}, rollback)
      [] outcome = "exception" ->
            HelperResult(FALSE, "Data backup failed", backup, rollback)
      [] outcome = "exception_late" ->
            HelperResult(FALSE, "Data backup failed", backup \cup {"grants"}, rollback)

_configure_real_sources(outcome, backup, rollback) ==
    CASE outcome = "ok" -> HelperResult(TRUE, "None", backup, rollback)
      [] outcome = "failed" ->
            HelperResult(FALSE, "No real data sources configured", backup, rollback)

_test_real_connections(outcome, backup, rollback) ==
    CASE outcome = "ok" -> HelperResult(TRUE, "None", backup, rollback)
      [] outcome = "failed" ->
            HelperResult(FALSE, "No real data connections successful", backup, rollback)
      [] outcome = "exception" ->
            HelperResult(FALSE, "Connection testing failed", backup, rollback)

\* rollback_data is assigned once both sources have been read, before the
\* success of the step is decided.
_migrate_data_sources(target_environment, outcome, backup, rollback) ==
    LET stored == [previous_grant_source |-> SourceClass(target_environment),
                   previous_application_source |-> SourceClass(target_environment)]
    IN  CASE outcome = "ok" -> HelperResult(TRUE, "None", backup, stored)
          [] outcome = "failed" ->
                HelperResult(FALSE, "No data retrieved from new sources", backup, stored)
          [] outcome = "exception" ->
                HelperResult(FALSE, "Data source migration failed", backup, rollback)

_validate_migration(outcome, backup, rollback) ==
    CASE outcome \in {"failed", "exception"} ->
            HelperResult(FALSE, "Migration validation failed", backup, rollback)
      [] outcome = "ok" -> HelperResult(TRUE, "None", backup, rollback)

_update_documentation(outcome, backup, rollback) ==
    CASE outcome = "ok" -> HelperResult(TRUE, "None", backup, rollback)

\* The outcomes each step helper can have.
StepOutcomes(step) ==
    CASE step = "validate_current_data" -> {"ok", "failed", "exception"}
      [] step = "backup_test_data" -> {"ok", "exception", "exception_late"}
      [] step = "configure_real_sources" -> {"ok", "failed"}
      [] step = "test_real_connections" -> {"ok", "failed", "exception"}
      [] step = "migrate_data_sources" -> {"ok", "failed", "exception"}
      [] step = "validate_migration" -> {"ok", "failed", "exception"}
      [] step = "update_documentation" -> {"ok"}

MigrationStepResult(step, success, error_message) ==
    [step |-> step, status |-> IF success THEN "completed" ELSE "failed",
     success |-> success, error_message |-> error_message]

\* _execute_migration_step: [result, backup_data, rollback_data].  Every
\* helper returns its failure itself, so the except clause of this function
\* is not entered.
_execute_migration_step(step, target_environment, outcome, backup, rollback) ==
    LET h == CASE step = "validate_current_data" ->
                      _validate_current_data(outcome, backup, rollback)
               [] step = "backup_test_data" ->
                      _backup_test_data(outcome, backup, rollback)
               [] step = "configure_real_sources" ->
                      _configure_real_sources(outcome, backup, rollback)
               [] step = "test_real_connections" ->
                      _test_real_connections(outcome, backup, rollback)
               [] step = "migrate_data_sources" ->
                      _migrate_data_sources(target_environment, outcome, backup, rollback)
               [] step = "validate_migration" ->
                      _validate_migration(outcome, backup, rollback)
               [] step = "update_documentation" ->
                      _update_documentation(outcome, backup, rollback)
    IN  [result |-> MigrationStepResult(step, h.success, h.error_message),
         backup_data |-> h.backup_data, rollback_data |-> h.rollback_data]

MigrationReport(target_environment, status, steps, quality_reports, rollback_available, rollback_performed) ==
    [target_environment |-> target_environment, status |-> status,
     steps |-> steps, quality_reports |-> quality_reports,
     rollback_available |-> rollback_available,
     rollback_performed |-> rollback_performed]

\* _collect_quality_reports: the two reports, or none when collecting raised.
_collect_quality_reports(collected) ==
    IF collected THEN << "grants", "applications" >> ELSE << >>

\* Mutation of MigrationLoop: the rollback is available after any
\* successful step.
RECURSIVE MigrationLoop_RollbackAfterAnyStep(_, _, _, _, _, _, _, _, _)
MigrationLoop_RollbackAfterAnyStep(i, target_environment, outcomes, collected, steps, quality_reports, rollback_available, backup, rollback) ==
    IF i > Len(migration_steps)
    THEN [report |-> MigrationReport(target_environment, "completed", steps,
                        quality_reports, rollback_available, FALSE),
          backup_data |-> backup, rollback_data |-> rollback]
    ELSE LET step == migration_steps[i]
             r == _execute_migration_step(step, target_environment, outcomes[step],
                                          backup, rollback)
             steps2 == Append(steps, r.result)
         IN  IF ~r.result.success
             THEN [report |->
                      IF rollback_available
                      THEN MigrationReport(target_environment, "rolled_back", steps2,
                               quality_reports, rollback_available, TRUE)
                      ELSE MigrationReport(target_environment, "failed", steps2,
                               quality_reports, rollback_available, FALSE),
                   backup_data |-> r.backup_data, rollback_data |-> r.rollback_data]
             ELSE MigrationLoop_RollbackAfterAnyStep(i + 1, target_environment, outcomes,
                      collected, steps2,
                      IF step = "validate_migration"
                      THEN _collect_quality_reports(collected) ELSE quality_reports,
                      TRUE, r.backup_data, r.rollback_data)

\* The loop of execute_migration from the i-th step on:
\* [report, backup_data, rollback_data].  _perform_rollback only logs.
RECURSIVE MigrationLoop(_, _, _, _, _, _, _, _, _)
MigrationLoop(i, target_environment, outcomes, collected, steps, quality_reports, rollback_available, backup, rollback) ==
    IF i > Len(migration_steps)
    THEN [report |-> MigrationReport(target_environment, "completed", steps,
                        quality_reports, rollback_available, FALSE),
          backup_data |-> backup, rollback_data |-> rollback]
    ELSE LET step == migration_steps[i]
             r == _execute_migration_step(step, target_environment, outcomes[step],
                                          backup, rollback)
             steps2 == Append(steps, r.result)
         IN  IF ~r.result.success
             THEN [report |->
                      IF rollback_available
                      THEN MigrationReport(target_environment, "rolled_back", steps2,
                               quality_reports, rollback_available, TRUE)
                      ELSE MigrationReport(target_environment, "failed", steps2,
                               quality_reports, rollback_available, FALSE),
                   backup_data |-> r.backup_data, rollback_data |-> r.rollback_data]
             ELSE MigrationLoop(i + 1, target_environment, outcomes, collected, steps2,
                      IF step = "validate_migration"
                      THEN _collect_quality_reports(collected) ELSE quality_reports,
                      rollback_available \/ step = "backup_test_data",
                      r.backup_data, r.rollback_data)

execute_migration(target_environment, outcomes, collected, backup, rollback) ==
    MigrationLoop(1, target_environment, outcomes, collected, << >>, << >>, FALSE,
                  backup, rollback)

\* One outcome for every step, with at most MaxFailing steps that would
\* not succeed.
OutcomeInputs ==
    { f \in [ { migration_steps[i] : i \in 1..Len(migration_steps) } ->
                {"ok", "failed", "exception", "exception_late"} ] :
          /\ \A i \in 1..Len(migration_steps) :
                 f[migration_steps[i]] \in StepOutcomes(migration_steps[i])
          /\ Cardinality({ i \in 1..Len(migration_steps) :
                               f[migration_steps[i]] # "ok" }) <= MaxFailing }

\* Target environments: one with mock sources, one with real ones.
TargetInputs == { "testing", "production" }

ExecuteMigration(target_environment, outcomes, collected) ==
    /\ LET r == execute_migration(target_environment, outcomes, collected,
                                  backup_data, rollback_data)
       IN  /\ ret' = Return(r.report)
           /\ backup_data' = r.backup_data
           /\ rollback_data' = r.rollback_data
    /\ call' = [op |-> "execute_migration", done |-> TRUE,
                target_environment |-> target_environment,
                outcomes |-> outcomes, collected |-> collected]
    /\ UNCHANGED <<engine_vars, now, grants_vars, current_source, fallback_source,
                   switch_history, authenticator_vars>>

\* migration_strategy = DataMigrationStrategy(): both dictionaries are empty.
InitMigration ==
    /\ EngineNotLoaded /\ GrantsNotLoaded /\ AuthenticatorNotLoaded
    /\ now = 0
    /\ backup_data = {}
    /\ rollback_data = << >>
    /\ current_source = "None"
    /\ fallback_source = "None"
    /\ switch_history = << >>
    /\ call = [op |-> "<module>", done |-> TRUE]
    /\ ret = Return(<<>>)

NextMigration ==
    \E target_environment \in TargetInputs, outcomes \in OutcomeInputs,
       collected \in BOOLEAN :
        ExecuteMigration(target_environment, outcomes, collected)

SpecMigration == InitMigration /\ [][NextMigration]_vars


(***************************************************************************)
(* migration_strategy.py: the data source switch                           *)
(*                                                                         *)
(* What _validate_real_sources and _test_functionality find is the         *)
(* environment's: their results are given to each call.  Both return       *)
(* their failures, so the except clauses of the two switch functions are   *)
(* not entered.  The timestamp of a history entry is left out.             *)
(***************************************************************************)

\* The fields of a DataSourceSwitch.
Switch(current, fallback, history) ==
    [current_source |-> current, fallback_source |-> fallback,
     switch_history |-> history]

HistoryEntry(from, to) == [from |-> from, to |-> to, success |-> TRUE]

\* switch_to_test_data: [value, switch]; functional is what
\* _test_functionality returns.
switch_to_test_data(s, functional) ==
    LET switched == Switch("test", s.fallback_source, s.switch_history)
    IN  IF ~functional
        THEN [value |-> FALSE, switch |-> switched]
        ELSE [value |-> TRUE,
              switch |-> Switch("test", s.fallback_source,
                                Append(s.switch_history, HistoryEntry("real", "test")))]

\* switch_to_real_data: [value, switch]; valid is what _validate_real_sources
\* returns, functional what _test_functionality returns for the real
\* sources, test_functional what it returns inside switch_to_test_data.
switch_to_real_data(s, valid, functional, test_functional) ==
    IF ~valid THEN [value |-> FALSE, switch |-> s]
    ELSE LET switched == Switch("real", s.current_source, s.switch_history)
         IN  IF ~functional
             THEN [value |-> FALSE,
                   switch |-> switch_to_test_data(switched, test_functional).switch]
             ELSE [value |-> TRUE,
                   switch |-> Switch("real", s.current_source,
                                     Append(s.switch_history, HistoryEntry("test", "real")))]

\* The switch object as it is.
data_source_switch == Switch(current_source, fallback_source, switch_history)

SwitchToRealData(valid, functional, test_functional) ==
    /\ Len(switch_history) < MaxSwitches
    /\ LET r == switch_to_real_data(data_source_switch, valid, functional, test_functional)
       IN  /\ ret' = Return(r.value)
           /\ current_source' = r.switch.current_source
           /\ fallback_source' = r.switch.fallback_source
           /\ switch_history' = r.switch.switch_history
    /\ call' = [op |-> "switch_to_real_data", done |-> TRUE,
                before |-> data_source_switch, valid |-> valid,
                functional |-> functional, test_functional |-> test_functional]
    /\ UNCHANGED <<engine_vars, now, grants_vars, backup_data, rollback_data,
                   authenticator_vars>>

SwitchToTestData(functional) ==
    /\ Len(switch_history) < MaxSwitches
    /\ LET r == switch_to_test_data(data_source_switch, functional)
       IN  /\ ret' = Return(r.value)
           /\ current_source' = r.switch.current_source
           /\ fallback_source' = r.switch.fallback_source
           /\ switch_history' = r.switch.switch_history
    /\ call' = [op |-> "switch_to_test_data", done |-> TRUE,
                before |-> data_source_switch, valid |-> TRUE,
                functional |-> functional, test_functional |-> functional]
    /\ UNCHANGED <<engine_vars, now, grants_vars, backup_data, rollback_data,
                   authenticator_vars>>

\* data_source_switch = DataSourceSwitch(): no source yet, no history.
InitSwitch ==
    /\ EngineNotLoaded /\ GrantsNotLoaded /\ AuthenticatorNotLoaded
    /\ now = 0
    /\ backup_data = << >>
    /\ rollback_data = << >>
    /\ current_source = "None"
    /\ fallback_source = "None"
    /\ switch_history = << >>
    /\ call = [op |-> "<module>", done |-> TRUE]
    /\ ret = Return(FALSE)

NextSwitch ==
    \/ \E valid, functional, test_functional \in BOOLEAN :
           SwitchToRealData(valid, functional, test_functional)
    \/ \E functional \in BOOLEAN : SwitchToTestData(functional)

SpecSwitch == InitSwitch /\ [][NextSwitch]_vars


(***************************************************************************)
(* data_quality.py: the authenticator's rate limits                        *)
(*                                                                         *)
(* Instants are seconds.  The configured limits (100 to 200 requests a     *)
(* minute, 500 to 2000 an hour) are scaled down to MaxPerMinute and        *)
(* MaxPerHour; _check_rate_limit reads them from rate_limits and treats    *)
(* every pair of limits alike.  The two windows have their real lengths.   *)
(***************************************************************************)

MinuteWindow == 60
HourWindow == 3600
MinKeyLength == 10

\* _configure_rate_limits.
rate_limits ==
    [ api_name \in { "grants_api", "metrics_api", "applications_api" } |->
          [requests_per_minute |-> MaxPerMinute, requests_per_hour |-> MaxPerHour] ]

Tracker(minute_requests, hour_requests) ==
    [minute_requests |-> minute_requests, hour_requests |-> hour_requests]

\* The trackers with the tracker of one API replaced.
WithTracker(trackers, api_name, tracker) ==
    [ a \in DOMAIN trackers \cup {api_name} |->
          IF a = api_name THEN tracker ELSE trackers[a] ]

\* Mutation of _check_rate_limit: a request stays in its window until it is
\* older than the window's length.
_check_rate_limit_InclusiveWindows(trackers, api_name, at) ==
    IF api_name \notin DOMAIN rate_limits
    THEN [value |-> TRUE, trackers |-> trackers]
    ELSE LET tracker == IF api_name \in DOMAIN trackers
                        THEN trackers[api_name] ELSE Tracker(<<>>, <<>>)
             limits == rate_limits[api_name]
             InMinute(req_time) == at - req_time <= MinuteWindow
             InHour(req_time) == at - req_time <= HourWindow
             cleaned == Tracker(SelectSeq(tracker.minute_requests, InMinute),
                                SelectSeq(tracker.hour_requests, InHour))
         IN  IF Len(cleaned.minute_requests) >= limits.requests_per_minute
             THEN [value |-> FALSE, trackers |-> WithTracker(trackers, api_name, cleaned)]
             ELSE IF Len(cleaned.hour_requests) >= limits.requests_per_hour
             THEN [value |-> FALSE, trackers |-> WithTracker(trackers, api_name, cleaned)]
             ELSE [value |-> TRUE,
                   trackers |-> WithTracker(trackers, api_name,
                                    Tracker(Append(cleaned.minute_requests, at),
                                            Append(cleaned.hour_requests, at)))]

\* _check_rate_limit at the instant at: [value, trackers].
_check_rate_limit(trackers, api_name, at) ==
    IF api_name \notin DOMAIN rate_limits
    THEN [value |-> TRUE, trackers |-> trackers]
    ELSE LET tracker == IF api_name \in DOMAIN trackers
                        THEN trackers[api_name] ELSE Tracker(<<>>, <<>>)
             limits == rate_limits[api_name]
             InMinute(req_time) == at - req_time < MinuteWindow
             InHour(req_time) == at - req_time < HourWindow
             cleaned == Tracker(SelectSeq(tracker.minute_requests, InMinute),
                                SelectSeq(tracker.hour_requests, InHour))
         IN  IF Len(cleaned.minute_requests) >= limits.requests_per_minute
             THEN [value |-> FALSE, trackers |-> WithTracker(trackers, api_name, cleaned)]
             ELSE IF Len(cleaned.hour_requests) >= limits.requests_per_hour
             THEN [value |-> FALSE, trackers |-> WithTracker(trackers, api_name, cleaned)]
             ELSE [value |-> TRUE,
                   trackers |-> WithTracker(trackers, api_name,
                                    Tracker(Append(cleaned.minute_requests, at),
                                            Append(cleaned.hour_requests, at)))]

\* authenticate_api: [value, checked, trackers]; checked tells whether the
\* rate limit was consulted.
authenticate_api(keys, trackers, api_name, at) ==
    LET api_key == IF api_name \in DOMAIN keys THEN keys[api_name] ELSE PyNone
    IN  IF api_key.t = "none" \/ api_key.s = ""
        THEN [value |-> FALSE, checked |-> FALSE, trackers |-> trackers]
        ELSE LET r == _check_rate_limit(trackers, api_name, at)
             IN  [value |-> r.value /\ Len(Chars(api_key.s)) >= MinKeyLength,
                  checked |-> TRUE, trackers |-> r.trackers]

\* One entry of the history of _check_rate_limit calls.
Checked(api_name, at, admitted) ==
    [api_name |-> api_name, at |-> at, admitted |-> admitted]

\* The key of grants_api in the environment: unset, too short, or valid.
KeyInputs == { PyNone, PyStr("sk-123"), PyStr("sk-1234567890") }

\* Seconds between one call and the next.
ElapsedInputs == { 0, 1, MinuteWindow - 1, MinuteWindow, HourWindow - MinuteWindow }

\* API names with the seconds elapsed since the call before; payments_api
\* has no configured limits.
CheckInputs ==
    { <<"grants_api", d>> : d \in ElapsedInputs }
    \cup { <<"metrics_api", 0>>, <<"payments_api", 0>> }

AuthenticateInputs == { <<"grants_api", 0>> }

CheckRateLimit(api_name, elapsed) ==
    /\ call.n < MaxCalls
    /\ now' = now + elapsed
    /\ LET r == _check_rate_limit(rate_limit_trackers, api_name, now')
       IN  /\ ret' = Return(r.value)
           /\ rate_limit_trackers' = r.trackers
           /\ call' = [op |-> "_check_rate_limit", done |-> TRUE, n |-> call.n + 1,
                       api_name |-> api_name, before |-> rate_limit_trackers,
                       log |-> Append(call.log, Checked(api_name, now', r.value))]
    /\ UNCHANGED <<engine_vars, grants_vars, migration_vars, api_keys>>

AuthenticateApi(api_name, elapsed) ==
    /\ call.n < MaxCalls
    /\ now' = now + elapsed
    /\ LET r == authenticate_api(api_keys, rate_limit_trackers, api_name, now')
           checked == _check_rate_limit(rate_limit_trackers, api_name, now').value
       IN  /\ ret' = Return(r.value)
           /\ rate_limit_trackers' = r.trackers
           /\ call' = [op |-> "authenticate_api", done |-> TRUE, n |-> call.n + 1,
                       api_name |-> api_name, before |-> rate_limit_trackers,
                       log |-> IF r.checked
                               THEN Append(call.log, Checked(api_name, now', checked))
                               ELSE call.log]
    /\ UNCHANGED <<engine_vars, grants_vars, migration_vars, api_keys>>

\* data_authenticator = RealDataAuthenticator(): the keys are read from the
\* environment and no request has been tracked.
InitRateLimit ==
    /\ EngineNotLoaded /\ GrantsNotLoaded /\ MigrationNotLoaded
    /\ now = 0
    /\ \E key \in KeyInputs :
           api_keys = [ api_name \in DOMAIN rate_limits |->
                            IF api_name = "grants_api" THEN key ELSE PyNone ]
    /\ rate_limit_trackers = << >>
    /\ call = [op |-> "<module>", done |-> TRUE, n |-> 0, log |-> << >>]
    /\ ret = Return(FALSE)

NextRateLimit ==
    \/ \E c \in CheckInputs : CheckRateLimit(c[1], c[2])
    \/ \E c \in AuthenticateInputs : AuthenticateApi(c[1], c[2])

SpecRateLimit == InitRateLimit /\ [][NextRateLimit]_vars

(***************************************************************************)
(* Properties.                                                             *)
(***************************************************************************)
\* The call that has just completed.
Completed(op) == call.op = op /\ call.done

\* rule passes the type filter of the completed process_rules call.
PassesFilter(rule) ==
    \/ call.rule_types.t = "none"
    \/ call.rule_types.items = <<>>
    \/ \E k \in 1..Len(call.rule_types.items) :
           rule.rule_type.t = "str" /\ call.rule_types.items[k].s = rule.rule_type.s

\* Every condition of rule evaluates to true in the context of the call.
ConditionsHold(rule) ==
    \A j \in 1..Len(rule.conditions.items) :
        LET r == _evaluate_condition(rule.conditions.items[j], call.context)
        IN  ~r.raised /\ r.value

\* The positions in the list rs of the rules that pass the filter and whose
\* conditions all hold.
Triggering(rs) ==
    { i \in 1..Len(rs) : PassesFilter(rs[i]) /\ ConditionsHold(rs[i]) }

\* The conditions and actions of rule have the shape of the data model:
\* dicts, with a string or missing field.
WellFormed(rule) ==
    /\ \A j \in 1..Len(rule.conditions.items) :
           /\ rule.conditions.items[j].isDict
           /\ IsHashable(rule.conditions.items[j].field)
    /\ \A j \in 1..Len(rule.actions.items) : rule.actions.items[j].isDict

\* entry is the result entry of rule.
EntryOf(entry, rule) ==
    /\ entry.rule_name = rule.name
    /\ entry.rule_type = rule.rule_type
    /\ entry.triggered = TRUE
    /\ Len(entry.actions) = Len(rule.actions.items)
    /\ \A j \in 1..Len(entry.actions) : entry.actions[j].action = rule.actions.items[j].type

\* C1: process_rules returns one entry (rule_name, rule_type, triggered =
\* true, actions) for exactly the stored rules that pass the type filter and
\* whose conditions all evaluate to true: the entries correspond one to one
\* to those rules, a rule that is filtered out or has a failing condition has
\* no entry, and no entry has triggered = false.  A store whose rules have
\* the shape of the data model always gets its list.
C1_EntriesExactlyTriggered ==
    Completed("process_rules") =>
        /\ (\A i \in 1..Len(rules) : WellFormed(rules[i])) => ~ret.raised
        /\ ~ret.raised =>
              /\ \A k \in 1..Len(ret.value) : ret.value[k].triggered = TRUE
              /\ Len(ret.value) = Cardinality(Triggering(rules))
              /\ \E f \in [1..Len(ret.value) -> Triggering(rules)] :
                    /\ \A a, b \in 1..Len(ret.value) : a # b => f[a] # f[b]
                    /\ \A k \in 1..Len(ret.value) : EntryOf(ret.value[k], rules[f[k]])

\* C1 witness: a call returned entries for some of the stored rules while a
\* rule that passes the filter failed its conditions and another was
\* filtered out.
C1_Witness ==
    /\ Completed("process_rules") /\ ~ret.raised
    /\ Len(ret.value) >= 1
    /\ \E i \in 1..Len(rules) : PassesFilter(rules[i]) /\ ~ConditionsHold(rules[i])
    /\ \E i \in 1..Len(rules) : ~PassesFilter(rules[i])

\* C2: the results are in insertion order: the entries of the returned list
\* are those of the triggering rules in the order in which add_rule accepted
\* them.
C2_InsertionOrder ==
    (Completed("process_rules") /\ ~ret.raised) =>
        \E f \in [1..Len(ret.value) -> Triggering(added)] :
            /\ \A a, b \in 1..Len(ret.value) : a < b => f[a] < f[b]
            /\ \A k \in 1..Len(ret.value) : EntryOf(ret.value[k], added[f[k]])

\* C2 witness: two different rules triggered in one call.
C2_Witness ==
    /\ Completed("process_rules") /\ ~ret.raised
    /\ Len(ret.value) >= 2
    /\ ret.value[1].rule_name # ret.value[2].rule_name

\* C3: with a non-empty rule_types no entry has a rule_type outside the
\* list, whatever the rule's conditions; with rule_types None or empty no
\* rule is excluded by type, and [] gives the result None gives.
C3_FilterSemantics ==
    Completed("process_rules") =>
        /\ (Truthy(call.rule_types) /\ ~ret.raised) =>
              \A k \in 1..Len(ret.value) :
                  \E j \in 1..Len(call.rule_types.items) :
                      PyEq(call.rule_types.items[j], ret.value[k].rule_type)
        /\ (~Truthy(call.rule_types) /\ ~ret.raised) =>
              Len(ret.value) = Cardinality({i \in 1..Len(rules) : ConditionsHold(rules[i])})
        /\ call.rule_types = PyList(<<>>) =>
              ret = process_rules(rules, action_handlers, call.context, PyNone)

\* C3 witness: a stored rule whose conditions hold is excluded by the filter
\* while another rule is reported.
C3_Witness ==
    /\ Completed("process_rules") /\ ~ret.raised
    /\ Truthy(call.rule_types)
    /\ Len(ret.value) >= 1
    /\ \E i \in 1..Len(rules) : ~PassesFilter(rules[i]) /\ ConditionsHold(rules[i])

\* The field of the completed _evaluate_condition call is (not) a key of the
\* context.
FieldPresent ==
    /\ call.condition.field.t = "str"
    /\ call.condition.field.s \in DOMAIN call.context

\* C4: for a condition whose field is not a key of the context,
\* _evaluate_condition returns true iff the operator is not_exists; every
\* other operator returns false, and nothing is raised.
C4_MissingField ==
    (/\ Completed("_evaluate_condition")
     /\ call.condition.isDict
     /\ IsHashable(call.condition.field)
     /\ ~FieldPresent) =>
        /\ ~ret.raised
        /\ ret.value = (call.condition.operator = PyStr("not_exists"))

\* C4 witness: not_equals on a missing field returned false.
C4_Witness ==
    /\ Completed("_evaluate_condition")
    /\ call.condition.isDict
    /\ call.condition.field = PyStr("missing")
    /\ call.condition.operator = PyStr("not_equals")
    /\ ~ret.raised /\ ret.value = FALSE

\* C5: when the field is a key of the context, exists is true and not_exists
\* is false, whatever condition.value and the context value are.
C5_PresentField ==
    (/\ Completed("_evaluate_condition")
     /\ call.condition.isDict
     /\ FieldPresent) =>
        /\ call.condition.operator = PyStr("exists") => ret = Return(TRUE)
        /\ call.condition.operator = PyStr("not_exists") => ret = Return(FALSE)

\* C5 witness: exists on a field whose context value is None returned true.
C5_Witness ==
    /\ Completed("_evaluate_condition")
    /\ call.condition.isDict
    /\ FieldPresent
    /\ call.context[call.condition.field.s] = PyNone
    /\ call.condition.operator = PyStr("exists")
    /\ ret = Return(TRUE)

\* C6: evaluate_conditions is the AND of its conditions in list order: it
\* returns true iff every condition evaluates to true, returns false at the
\* first condition that evaluates to false (later ones are not evaluated),
\* and returns true for an empty list; a stored rule with empty conditions
\* that passes the type filter has an entry in every returned result.
C6_ConjunctionInOrder ==
    /\ Completed("evaluate_conditions") =>
          LET n == Len(call.conditions)
              r == [j \in 1..n |-> _evaluate_condition(call.conditions[j], call.context)]
              istrue(j) == ~r[j].raised /\ r[j].value
              first == { j \in 1..n : ~istrue(j) /\ \A h \in 1..(j - 1) : istrue(h) }
          IN  /\ (ret = Return(TRUE)) <=> (\A j \in 1..n : istrue(j))
              /\ \A j \in first : ret = r[j]
              /\ n = 0 => ret = Return(TRUE)
    /\ (Completed("process_rules") /\ ~ret.raised) =>
          \A i \in 1..Len(rules) :
              (rules[i].conditions.items = <<>> /\ PassesFilter(rules[i])) =>
                  \E k \in 1..Len(ret.value) : EntryOf(ret.value[k], rules[i])

\* C6 witness: a condition list whose first condition fails returned false
\* although a later entry could not have been evaluated.
C6_Witness ==
    /\ Completed("evaluate_conditions")
    /\ Len(call.conditions) = 2
    /\ ~call.conditions[2].isDict
    /\ ret = Return(FALSE)

\* C7 (as claimed): condition evaluation never propagates an error: whatever
\* the conditions of the stored rules are, process_rules returns normally,
\* with the entries of the rules whose conditions hold.
C7_NeverPropagates ==
    Completed("process_rules") =>
        /\ ~ret.raised
        /\ Len(ret.value) = Cardinality(Triggering(rules))

\* The handler of action a raises: the type is registered and params has no
\* .get.
HandlerRaises(a) ==
    a.type.t = "str" /\ a.type.s \in action_handlers /\ ~a.params.isDict

\* e is the result execute_actions reports for action a.
ReportedAs(e, a) ==
    /\ e.action = a.type
    /\ HandlerRaises(a) =>
          /\ e.success = FALSE
          /\ e.keys = {"action", "success", "error"}
          /\ e.error = "'str' object has no attribute 'get'"
    /\ (~HandlerRaises(a) /\ IsHashable(a.type)) =>
          /\ e.success = TRUE
          /\ e.keys = {"action", "success", "result"}

\* C8: execute_actions returns one result per action, in action order; the
\* result of an action whose handler raises is {success: false, error}, the
\* later actions are still executed and reported, the rule is still reported
\* as triggered and the later rules are still processed.
C8_ActionFailureIsolation ==
    /\ (/\ Completed("execute_actions")
        /\ \A j \in 1..Len(call.actions) : call.actions[j].isDict) =>
          /\ ~ret.raised
          /\ Len(ret.value) = Len(call.actions)
          /\ \A j \in 1..Len(call.actions) : ReportedAs(ret.value[j], call.actions[j])
    /\ (Completed("process_rules") /\ ~ret.raised) =>
          /\ Len(ret.value) = Cardinality(Triggering(rules))
          /\ \A k \in 1..Len(ret.value) :
                \E i \in Triggering(rules) :
                    /\ EntryOf(ret.value[k], rules[i])
                    /\ \A j \in 1..Len(ret.value[k].actions) :
                          ReportedAs(ret.value[k].actions[j], rules[i].actions.items[j])

\* C8 witness: a rule whose first action failed is reported as triggered
\* with its second action succeeded, and a later rule is reported after it.
C8_Witness ==
    /\ Completed("process_rules") /\ ~ret.raised
    /\ Len(ret.value) >= 2
    /\ Len(ret.value[1].actions) >= 2
    /\ ret.value[1].actions[1].success = FALSE
    /\ ret.value[1].actions[2].success = TRUE
    /\ ret.value[1].triggered = TRUE

\* The type of action a can be looked up and has no registered handler.
UnknownType(a) ==
    IsHashable(a.type) /\ ~(a.type.t = "str" /\ a.type.s \in action_handlers)

\* C9: an action whose type is not in the handler registry raises nothing
\* and is not marked as failed: its result is {action: type, success: true,
\* result: None}; the other actions are reported as when executed alone.
C9_UnknownActionType ==
    (/\ Completed("execute_actions")
     /\ \A j \in 1..Len(call.actions) : call.actions[j].isDict) =>
        /\ ~ret.raised
        /\ \A j \in 1..Len(call.actions) :
              /\ UnknownType(call.actions[j]) =>
                    ret.value[j] = [keys |-> {"action", "success", "result"},
                                    action |-> call.actions[j].type,
                                    success |-> TRUE,
                                    result |-> ResultNone,
                                    error |-> ""]
              /\ ret.value[j] =
                    execute_actions(<<call.actions[j]>>, call.context, action_handlers).value[1]

\* C9 witness: an action of unknown type was reported with result None and
\* the action after it returned its handler's record.
C9_Witness ==
    /\ Completed("execute_actions") /\ ~ret.raised
    /\ Len(call.actions) = 2
    /\ call.actions[1].isDict /\ UnknownType(call.actions[1])
    /\ ret.value[1].success = TRUE /\ ret.value[1].result = ResultNone
    /\ ret.value[2].success = TRUE /\ ~ret.value[2].result.isNone

\* C10: add_rule returns true and appends the rule as the last element of
\* the store iff the rule has the keys name, rule_type, conditions and
\* actions and both conditions and actions are lists; otherwise it returns
\* false, raises nothing and leaves the store unchanged.
C10_AddRuleValidates ==
    Completed("add_rule") =>
        LET accepted ==
                /\ call.rule.isDict
                /\ {"name", "rule_type", "conditions", "actions"} \subseteq call.rule.keys
                /\ call.rule.conditions.isList
                /\ call.rule.actions.isList
        IN  /\ ~ret.raised
            /\ ret.value = accepted
            /\ accepted => rules = call.before \o <<call.rule>>
            /\ ~accepted => rules = call.before

\* C10 witness: a rule whose conditions are not a list was refused on a
\* store that already holds a rule.
C10_Witness ==
    /\ Completed("add_rule")
    /\ call.rule.isDict /\ ~call.rule.conditions.isList
    /\ ret = Return(FALSE)
    /\ Len(rules) >= 1

\* The elements of a set of positions, in increasing order.
RECURSIVE Ascending(_)
Ascending(S) ==
    IF S = {} THEN <<>>
    ELSE LET m == CHOOSE x \in S : \A y \in S : x <= y
         IN  <<m>> \o Ascending(S \ {m})

\* The stored rule is a duplicate: an earlier stored rule has its name.
NameTaken(rs, rule) == \E i \in 1..Len(rs) : rs[i].name = rule.name

\* C11: add_rule does not reject duplicate names: a valid rule whose name is
\* already in the store is accepted and the store grows by one, and a
\* process_rules call returns one entry per stored rule that triggers, so k
\* triggering rules of one name give k entries of that name, each with the
\* action results of its own rule.
C11_DuplicateNames ==
    /\ (/\ Completed("add_rule")
        /\ ~_validate_rule(call.rule).raised
        /\ NameTaken(call.before, call.rule)) =>
          /\ ret = Return(TRUE)
          /\ Len(rules) = Len(call.before) + 1
          /\ rules[Len(rules)] = call.rule
    /\ (Completed("process_rules") /\ ~ret.raised) =>
          LET hit == Ascending(Triggering(rules))
          IN  /\ Len(ret.value) = Len(hit)
              /\ \A k \in 1..Len(hit) :
                    /\ ret.value[k].rule_name = rules[hit[k]].name
                    /\ Return(ret.value[k].actions) =
                          execute_actions(rules[hit[k]].actions.items, call.context,
                                          action_handlers)
              /\ \A i \in 1..Len(rules) :
                    Cardinality({ k \in 1..Len(ret.value) :
                                    ret.value[k].rule_name = rules[i].name })
                      = Cardinality({ j \in Triggering(rules) : rules[j].name = rules[i].name })

\* C11 witness: three rules of one name are stored, two of them with
\* different action lists, and a call returned three entries of that name
\* whose action results differ.
C11_Witness ==
    /\ Completed("process_rules") /\ ~ret.raised
    /\ Len(rules) = 3 /\ Len(ret.value) = 3
    /\ \A k \in 1..3 : ret.value[k].rule_name = rules[1].name
    /\ rules[1] = rules[2]
    /\ ret.value[2].actions # ret.value[3].actions

HighValueHolds(context) ==
    /\ "project_amount" \in DOMAIN context
    /\ context.project_amount.t = "int"
    /\ context.project_amount.n > 10000
    /\ "user_role" \in DOMAIN context
    /\ context.user_role # PyStr("admin")

\* C17: the default rule "High Value Project Approval" triggers exactly when
\* project_amount > 10000 and user_role is present and is not "admin": then
\* each stored copy that passes the type filter has one entry, with the two
\* action results require_approval and send_notification in that order, each
\* with success = true; an amount of 5000 or of exactly 10000, the role
\* admin, or no role, give no entry for it.
C17_HighValueApproval ==
    (Completed("process_rules") /\ ~ret.raised) =>
        LET copies == { i \in 1..Len(rules) :
                          /\ rules[i].name = PyStr("High Value Project Approval")
                          /\ rules[i].conditions = HighValueProjectApproval.conditions
                          /\ PassesFilter(rules[i]) }
            entries == { k \in 1..Len(ret.value) :
                           ret.value[k].rule_name = PyStr("High Value Project Approval") }
        IN  /\ Cardinality(entries) =
                  IF HighValueHolds(call.context) THEN Cardinality(copies) ELSE 0
            /\ \A k \in entries :
                  /\ Len(ret.value[k].actions) = 2
                  /\ ret.value[k].actions[1].action = PyStr("require_approval")
                  /\ ret.value[k].actions[1].success = TRUE
                  /\ ret.value[k].actions[2].action = PyStr("send_notification")
                  /\ ret.value[k].actions[2].success = TRUE

\* C17 witness: on the seeded store, the context {project_amount: 15000,
\* user_role: "member"} gave the entry of the rule, with its two successful
\* action results.
C17_Witness ==
    /\ Completed("process_rules") /\ ~ret.raised
    /\ rules = get_default_rules
    /\ call.context = [project_amount |-> PyInt(15000), user_role |-> PyStr("member")]
    /\ Len(ret.value) >= 1
    /\ ret.value[1].rule_name = PyStr("High Value Project Approval")
    /\ Len(ret.value[1].actions) = 2
    /\ ret.value[1].actions[1].success = TRUE /\ ret.value[1].actions[2].success = TRUE

\* C19: a newly constructed RulesEngine has an empty store, and the
\* module-level seeding adds every rule of get_default_rules successfully:
\* the global engine starts (and restarts) with exactly the nine default
\* rules in catalogue order, from "High Value Project Approval" to "Security
\* Scan on Deploy".
C19_Initialization ==
    /\ call = NoCall => rules = <<>>
    /\ Completed("<module>") =>
          /\ \A i \in 1..Len(call.results) : call.results[i] = TRUE
          /\ Len(call.results) = 9
          /\ rules = get_default_rules
          /\ [i \in 1..Len(rules) |-> rules[i].name.s] =
                <<"High Value Project Approval", "Grant Deadline Alert",
                  "New User Assignment", "Production Deployment Approval",
                  "Staging Auto-Deploy", "Critical Bug Hotfix",
                  "Deployment Health Check", "Code Review Required",
                  "Security Scan on Deploy">>

\* C19 witness: the seeding has just run on the new global engine.
C19_Witness ==
    /\ Completed("<module>")
    /\ Len(rules) = 9
    /\ rules[1].name = PyStr("High Value Project Approval")
    /\ rules[9].name = PyStr("Security Scan on Deploy")

\* C18 (as claimed): get_all_rules() is an operation of the rule store that
\* returns the stored rules in insertion order, and the health check, which
\* calls it, obtains the full list: it reports the rules engine as healthy
\* with the number of stored rules.
C18_GetAllRules ==
    /\ Completed("get_all_rules") => (~ret.raised /\ ret.value = rules)
    /\ Completed("health_check") =>
          /\ ret.value.rules_engine = "healthy"
          /\ "rules_count" \in ret.value.dependencies
          /\ ret.value.rules_count = Len(rules)
          /\ ret.value.status = call.status

\* C20: POST /api/rules is admin-only: a request by an authenticated user
\* whose role is not admin is answered 403 and leaves the store unchanged;
\* for an admin the response is 200, with the rule, iff add_rule returned
\* true (the rule is then the last of the store), and 400 iff add_rule
\* returned false.
C20_CreateRuleAdminOnly ==
    Completed("create_rule") =>
        LET rule == RuleOfRequest(call.rule_data)
            accepted == add_rule(call.before, rule).result
            code == ret.value.status_code
        IN  /\ ~ret.raised
            /\ call.role # "admin" => (code = 403 /\ rules = call.before)
            /\ call.role = "admin" =>
                  /\ code \in {200, 400}
                  /\ code = 200 <=> accepted
                  /\ code = 400 <=> ~accepted
                  /\ code = 200 => (ret.value.body.rule = rule
                                     /\ rules = Append(call.before, rule))
                  /\ code = 400 => rules = call.before

\* C20 witness: a member was refused with 403 after an admin had created a
\* rule, and the store kept its ten rules.
C20_Witness ==
    /\ Completed("create_rule")
    /\ call.role = "member"
    /\ ret.value.status_code = 403
    /\ Len(call.before) = Len(get_default_rules) + 1
    /\ rules = call.before

\* C14: the store is append-only: every add_rule, load_rules_from_file,
\* save_rules_to_file and process_rules call leaves the earlier contents of
\* the store as an unchanged prefix of the later contents (no operation
\* removes, replaces or reorders a rule).
C14_AppendOnly ==
    [][call'.op \in {"add_rule", "load_rules_from_file", "save_rules_to_file",
                     "process_rules"} =>
          /\ Len(rules) <= Len(rules')
          /\ SubSeq(rules', 1, Len(rules)) = rules]_vars

\* C14 witness: a load appended the two rules of the file to a store that
\* already held a rule, and that rule is still the first of the store.
C14_Witness ==
    /\ Completed("load_rules_from_file") /\ ret = Return(TRUE)
    /\ Len(call.before) = 1
    /\ Len(rules) = 3
    /\ rules[1] = call.before[1]

\* C16: round trip: after save_rules_to_file on a store S, loading the file
\* into a newly constructed (empty) engine returns true and gives a store
\* with the rules of S: as many, in the same order, each with the same name,
\* rule_type, conditions and actions.
C16_RoundTrip ==
    (/\ Completed("load_rules_from_file")
     /\ call.file_path = RulesPath
     /\ file.exists
     /\ call.before = <<>>) =>
        /\ ret = Return(TRUE)
        /\ Len(rules) = Len(file.saved)
        /\ \A i \in 1..Len(rules) :
              /\ rules[i].name = file.saved[i].name
              /\ rules[i].rule_type = file.saved[i].rule_type
              /\ rules[i].conditions = file.saved[i].conditions
              /\ rules[i].actions = file.saved[i].actions

\* C16 witness: a new engine loaded a file of two different rules, one of
\* them with a nested parameter dict, and holds those two rules.
C16_Witness ==
    /\ Completed("load_rules_from_file") /\ ret = Return(TRUE)
    /\ call.before = <<>>
    /\ file.exists /\ Len(file.saved) = 2
    /\ rules = file.saved
    /\ rules[1] = WithDescription(CriticalBugHotfix)
    /\ rules[2] = FailingAction

\* The call is, or was, a process_rules call that other requests could
\* interleave with.
Interleaved == call.op = "process_rules" /\ "start" \in DOMAIN call

\* C15: add_rule calls that interleave with a running process_rules call
\* never corrupt its iteration: the rules the loop evaluates are the stored
\* rules in insertion order, each once, none skipped; a call on a store of
\* data-model-shaped rules completes without error, and a call that
\* completes has evaluated every rule that was in the store when it started
\* and returns their entries in that order; no concurrently added rule is
\* lost: the store is the store at the start followed by the rules accepted
\* since.
C15_ConcurrentAddAndProcess ==
    /\ rules = added
    /\ Interleaved =>
          /\ rules = call.start \o call.during
          /\ call.evaluated = SubSeq(rules, 1, call.i)
          /\ call.done =>
                /\ (\A i \in 1..Len(rules) : WellFormed(rules[i])) => ~ret.raised
                /\ ~ret.raised =>
                      /\ Len(call.start) <= Len(call.evaluated)
                      /\ SubSeq(call.evaluated, 1, Len(call.start)) = call.start
                      /\ ret = process_rules(call.evaluated, action_handlers,
                                              call.context, call.rule_types)

\* C15 witness: a call that started on a store of one rule completed with
\* two entries: a rule added while it ran was evaluated after the first, and
\* both are in the store.
C15_Witness ==
    /\ Interleaved /\ call.done /\ ~ret.raised
    /\ Len(call.start) = 1
    /\ Len(call.during) >= 1
    /\ Len(call.evaluated) >= 2
    /\ Len(ret.value) = 2
    /\ ret.value[1].rule_name = call.start[1].name
    /\ rules = call.start \o call.during

\* A value with every bool replaced by the integer it is (True is 1, False
\* is 0), all the way down.
RECURSIVE Canonical(_)
Canonical(v) ==
    CASE v.t = "bool" -> PyInt(v.n)
      [] v.t = "list" -> PyList([i \in 1..Len(v.items) |-> Canonical(v.items[i])])
      [] v.t = "dict" -> PyDict([k \in DOMAIN v.items |-> Canonical(v.items[k])])
      [] OTHER -> v

\* Structural equality: the same kind of value with the same content, item
\* by item and key by key; numbers are equal when they are the same number.
StructurallyEqual(a, b) == Canonical(a) = Canonical(b)

\* The membership test of x in c is defined: c is a string and x is one, c
\* is a sequence, or c is a mapping and x can be a key.
MembershipDefined(x, c) ==
    \/ c.t = "str" /\ x.t = "str"
    \/ c.t = "list"
    \/ c.t = "dict" /\ x.t \notin {"list", "dict"}

\* x is a member of c: a run of the string c, an item of the sequence c, a
\* key of the mapping c.
IsMember(x, c) ==
    CASE c.t = "str" ->
            \E i \in 0..Len(Chars(c.s)) :
                /\ i + Len(Chars(x.s)) <= Len(Chars(c.s))
                /\ SubSeq(Chars(c.s), i + 1, i + Len(Chars(x.s))) = Chars(x.s)
      [] c.t = "list" -> \E i \in DOMAIN c.items : StructurallyEqual(c.items[i], x)
      [] c.t = "dict" -> x.t = "str" /\ x.s \in DOMAIN c.items

\* The completed call evaluated a condition dict on a field of its context.
OnPresentField ==
    /\ Completed("_evaluate_condition")
    /\ call.condition.isDict
    /\ call.condition.field.t = "str"
    /\ call.condition.field.s \in DOMAIN call.context
    /\ call.condition.operator.t = "str"

\* C21: for a field present in the context and operands on which the test
\* is defined, contains is true iff condition.value is a member of
\* context[field], in is true iff context[field] is a member of
\* condition.value, equals is structural equality, and not_contains, not_in
\* and not_equals return the negation of contains, in and equals.
C21_OperatorSemantics ==
    OnPresentField =>
        LET operator == call.condition.operator.s
            value == call.condition.value
            context_value == call.context[call.condition.field.s]
        IN  /\ operator = "equals" =>
                  ret = Return(StructurallyEqual(context_value, value))
            /\ operator = "not_equals" =>
                  ret = Return(~StructurallyEqual(context_value, value))
            /\ (operator = "contains" /\ MembershipDefined(value, context_value)) =>
                  ret = Return(IsMember(value, context_value))
            /\ (operator = "not_contains" /\ MembershipDefined(value, context_value)) =>
                  ret = Return(~IsMember(value, context_value))
            /\ (operator = "in" /\ MembershipDefined(context_value, value)) =>
                  ret = Return(IsMember(context_value, value))
            /\ (operator = "not_in" /\ MembershipDefined(context_value, value)) =>
                  ret = Return(~IsMember(context_value, value))

\* C21 witness: not_in was evaluated on a context value that is an item of
\* the condition's list, and returned false.
C21_Witness ==
    /\ OnPresentField
    /\ call.condition.operator.s = "not_in"
    /\ call.condition.value = PyList(<<PyStr("admin"), PyInt(1)>>)
    /\ call.context[call.condition.field.s] = PyBool(TRUE)
    /\ ret = Return(FALSE)

\* The operator entry is one of the thirteen operator strings.
DefinedOperator(operator) == operator.t = "str" /\ operator.s \in ConditionOperator

\* rule has a condition whose operator is not defined.
HasUnknownOperator(rule) ==
    \E j \in 1..Len(rule.conditions.items) :
        ~DefinedOperator(rule.conditions.items[j].operator)

\* The rules of rs that have no condition with an undefined operator.
RECURSIVE WithoutUnknownOperators(_)
WithoutUnknownOperators(rs) ==
    IF rs = <<>> THEN <<>>
    ELSE IF HasUnknownOperator(Head(rs)) THEN WithoutUnknownOperators(Tail(rs))
    ELSE <<Head(rs)>> \o WithoutUnknownOperators(Tail(rs))

\* C22: a condition whose operator is not one of the thirteen operator
\* strings evaluates to false in every context, whether its field is present
\* or absent, and raises nothing; a rule with such a condition never
\* triggers, and process_rules returns what it returns for the store without
\* those rules.
C22_UnknownOperator ==
    /\ (/\ Completed("_evaluate_condition")
        /\ call.condition.isDict
        /\ call.condition.field.t \in {"str", "none"}
        /\ ~DefinedOperator(call.condition.operator)) =>
            ret = Return(FALSE)
    /\ Completed("process_rules") =>
          /\ ~ret.raised
          /\ \A i \in 1..Len(rules) :
                HasUnknownOperator(rules[i]) =>
                    \A k \in 1..Len(ret.value) : ret.value[k].rule_name # rules[i].name
          /\ ret = process_rules(WithoutUnknownOperators(rules), action_handlers,
                                 call.context, call.rule_types)

\* C22 witness: a store holding both rules with an undefined operator
\* between two other rules was processed in a context in which every other
\* condition of theirs holds; both of the other rules triggered.
C22_Witness ==
    /\ Completed("process_rules")
    /\ Len(rules) = 3
    /\ rules[1] = HighValueProjectApproval
    /\ rules[2] = MisspeltOperatorRule
    /\ rules[3] = AlwaysWorkflow
    /\ call.context = [project_amount |-> PyInt(15000), user_role |-> PyStr("member")]
    /\ call.rule_types = PyNone
    /\ Len(ret.value) = 2

\* C22 witness of the single condition: an operator spelt in capitals was
\* evaluated on a present field whose value equals the condition's.
C22_WitnessCondition ==
    /\ Completed("_evaluate_condition")
    /\ call.condition = Cond(PyStr("subject"), PyStr("EQUALS"), PyInt(1))
    /\ call.context = [subject |-> PyInt(1)]
    /\ ret = Return(FALSE)

\* C23: action params are opaque to the engine: whatever the context, each
\* entry process_rules returns for "High Value Project Approval" has a
\* require_approval result whose entity_id is the literal text
\* "{project_id}" (and whose other fields are the rule's params), and the
\* params of the stored rule are what they were before the call.
C23_OpaqueParams ==
    (Completed("process_rules") /\ ~ret.raised) =>
        /\ \A k \in 1..Len(ret.value) :
              ret.value[k].rule_name = PyStr("High Value Project Approval") =>
                  /\ ret.value[k].actions[1].action = PyStr("require_approval")
                  /\ ret.value[k].actions[1].result =
                        ResultDict([approval_required |-> PyBool(TRUE),
                                    approver_role |-> PyStr("admin"),
                                    entity_type |-> PyStr("project"),
                                    entity_id |-> PyStr("{project_id}")])
        /\ \A i \in 1..Len(rules) :
              rules[i].name = PyStr("High Value Project Approval") =>
                  rules[i].actions.items[1].params =
                      Params([approver_role |-> PyStr("admin"),
                              entity_type |-> PyStr("project"),
                              entity_id |-> PyStr("{project_id}")])

\* C23 witness: the seeded engine processed the context of a new project
\* whose project_id is 1; the rule triggered and its require_approval result
\* names the entity "{project_id}".
C23_Witness ==
    /\ Completed("process_rules") /\ ~ret.raised
    /\ rules = get_default_rules
    /\ "project_id" \in DOMAIN call.context
    /\ call.context.project_id = PyInt(1)
    /\ Len(ret.value) >= 1
    /\ ret.value[1].rule_name = PyStr("High Value Project Approval")
    /\ ret.value[1].actions[1].result.fields.entity_id = PyStr("{project_id}")

\* The number of days from Today to a grant deadline of the model.
DaysAhead(deadline) ==
    CASE deadline.t = "datetime" -> deadline.n - Today
      [] deadline = PyStr("2026-11-08") -> 7
      [] deadline = PyStr("2026-11-09") -> 8

\* C24: the default rule "Grant Deadline Alert" alerts for grants closing
\* within 7 days: on the seeded engine, for a context with grant_status
\* "active" and a type filter that admits the rule, the result has an entry
\* of the rule (with one send_notification result) when grant_deadline is at
\* most 7 days after today, and has none when the deadline is later.
C24_GrantDeadlineAlert ==
    (/\ Completed("process_rules") /\ ~ret.raised
     /\ rules = get_default_rules
     /\ PassesFilter(GrantDeadlineAlert)
     /\ call.context \in GrantContexts
     /\ call.context.grant_status = PyStr("active")) =>
        LET entries == { k \in 1..Len(ret.value) :
                           ret.value[k].rule_name = PyStr("Grant Deadline Alert") }
        IN  IF DaysAhead(call.context.grant_deadline) <= 7
            THEN /\ Cardinality(entries) = 1
                 /\ \A k \in entries :
                       /\ Len(ret.value[k].actions) = 1
                       /\ ret.value[k].actions[1].action = PyStr("send_notification")
            ELSE entries = {}

\* What the rule does instead: an active grant triggers it exactly when its
\* deadline is a string (every ISO date sorts before the text
\* "{datetime.now() + timedelta(days=7)}"); a datetime never does.
C24_TriggersOnAnyDateString ==
    (/\ Completed("process_rules") /\ ~ret.raised
     /\ rules = get_default_rules
     /\ PassesFilter(GrantDeadlineAlert)
     /\ call.context \in GrantContexts) =>
        ((\E k \in 1..Len(ret.value) :
              ret.value[k].rule_name = PyStr("Grant Deadline Alert"))
            <=> (/\ call.context.grant_status = PyStr("active")
                 /\ call.context.grant_deadline.t = "str"))

\* The stored answers of one application and question, as indices of db.
AnswersOf(db, application_id, question) ==
    { i \in 1..Len(db) : /\ db[i].application_id = application_id
                         /\ db[i].question = question }

\* C25: answer versioning: for an application id and a question, the n-th
\* call of update_application_answer returns an answer of version n (1 for
\* the first, otherwise one more than the latest stored version), every
\* earlier version stays in the store, and no two stored answers of the same
\* application and question have the same version.
C25_AnswerVersioning ==
    /\ \A i \in 1..Len(answers_db), j \in 1..Len(answers_db) :
          (/\ i # j
           /\ answers_db[i].application_id = answers_db[j].application_id
           /\ answers_db[i].question = answers_db[j].question) =>
              answers_db[i].version # answers_db[j].version
    /\ Completed("update_application_answer") =>
          /\ ~ret.raised
          /\ answers_db = Append(call.before, ret.value)
          /\ ret.value.version =
                Cardinality(AnswersOf(answers_db, call.application_id, call.question))

\* What the versions are instead: 1 for the first answer of an application
\* and question and 2 for every later one, since the search stops at the
\* first stored answer; the store only grows.
C25_VersionAfterFirst ==
    /\ \A i \in 1..Len(answers_db) :
          answers_db[i].version =
              IF \E j \in 1..(i - 1) :
                     /\ answers_db[j].application_id = answers_db[i].application_id
                     /\ answers_db[j].question = answers_db[i].question
              THEN 2 ELSE 1
    /\ Completed("update_application_answer") =>
          answers_db = Append(call.before, ret.value)

\* C26: create_application, called with a grant id, an assignee and a title
\* of valid length, returns an application of status draft and appends
\* exactly that application to the store, which grows by one; the
\* application is then found by get_application_by_id and can be submitted.
C26_CreateApplication ==
    (/\ Completed("create_application")
     /\ Len(Chars(call.title)) >= 5 /\ Len(Chars(call.title)) <= 200) =>
        /\ ~ret.raised
        /\ ret.value.status = "draft"
        /\ applications_db = Append(call.before, ret.value)
        /\ get_application_by_id(applications_db, ret.value.id) = Return(ret.value)
        /\ submit_application(applications_db, ret.value.id, now).result = Return(TRUE)

\* What create_application does instead: it raises for every argument and
\* the application store stays empty, so no application is ever found or
\* submitted.
C26_AlwaysRaises ==
    /\ applications_db = <<>>
    /\ Completed("create_application") =>
          ret.raised /\ ret.exc = "ValidationError"
    /\ Completed("get_application_by_id") => ret = Return("None")
    /\ Completed("submit_application") => ret = Return(FALSE)


----------------------------------------------------------------------------
\* search_grants (grants.py)

Min(a, b) == IF a <= b THEN a ELSE b

Max(a, b) == IF a >= b THEN a ELSE b

\* The place of a grant in the catalogue.
CatalogueIndex(grant) ==
    CHOOSE i \in 1..Len(SAMPLE_GRANTS) : SAMPLE_GRANTS[i].id = grant.id

\* The grant satisfies every filter the query supplies.
Satisfies(grant, q) ==
    /\ q.keywords.t = "str" =>
          \/ IsSubstring(Lower(Chars(q.keywords.s)), Lower(Chars(grant.title)))
          \/ IsSubstring(Lower(Chars(q.keywords.s)), Lower(Chars(grant.description)))
    /\ q.category.t = "str" => grant.category = q.category.s
    /\ q.min_amount.t = "int" => grant.amount >= q.min_amount.n
    /\ q.max_amount.t = "int" => grant.amount <= q.max_amount.n
    /\ q.deadline_before.t = "datetime" => grant.deadline <= q.deadline_before.n

\* The grants returned are catalogue grants in catalogue order, and each
\* satisfies the filters.
OrderedAndFiltered(results, q) ==
    /\ \A i \in 1..Len(results) :
          /\ \E j \in 1..Len(SAMPLE_GRANTS) : SAMPLE_GRANTS[j].id = results[i].id
          /\ Satisfies(results[i], q)
    /\ \A i, j \in 1..Len(results) :
          i < j => CatalogueIndex(results[i]) < CatalogueIndex(results[j])

\* C30: a search that returns gives at most min(limit, 100) grants, for any
\* limit (0 and values above 100 included), in catalogue order, and every
\* grant returned satisfies all the filters supplied.
C30_SearchLimitAndFilters ==
    (Completed("search_grants") /\ ~ret.raised) =>
        /\ Len(ret.value) <= Min(call.q.limit, max_results_per_page)
        /\ OrderedAndFiltered(ret.value, call.q)

\* What the code does: the limit is compared after a grant has been
\* appended, so a limit of 0 or less still returns the first matching
\* grant; order and filters are as stated.
C30_LimitTestedAfterAppend ==
    (Completed("search_grants") /\ ~ret.raised) =>
        /\ Len(ret.value) <= Max(1, Min(call.q.limit, max_results_per_page))
        /\ OrderedAndFiltered(ret.value, call.q)

\* A search with limit 0 returned a grant.
C30_LimitZeroReturnsOne ==
    ~ (/\ Completed("search_grants") /\ ~ret.raised
       /\ call.q.limit = 0 /\ Len(ret.value) = 1)

\* Once a fixed deadline of the catalogue has passed, a search whose loop
\* reaches that grant raises the validation error of the Grant model.
C30_RaisesOnPastDeadline ==
    (Completed("search_grants") /\ ret.raised) =>
        /\ ret.exc \in {"ValueError", "ValidationError"}
        /\ ret.exc = "ValidationError" =>
              \E i \in 1..Len(SAMPLE_GRANTS) : SAMPLE_GRANTS[i].deadline <= call.at


----------------------------------------------------------------------------
\* execute_migration (migration_strategy.py)

\* The place of the first step that does not succeed, 0 when all succeed.
FirstFailing(outcomes) ==
    LET failing == { i \in 1..Len(migration_steps) : outcomes[migration_steps[i]] # "ok" }
    IN  IF failing = {} THEN 0
        ELSE CHOOSE i \in failing : \A j \in failing : i <= j

\* C27: the report's steps are the migration steps in their order up to the
\* first failing one, which is the only failed one; the status is completed
\* iff all seven steps succeed, rolled_back with rollback_performed iff the
\* first failing step comes after backup_test_data, and failed without a
\* rollback iff validate_current_data or backup_test_data fails.
C27_MigrationReport ==
    Completed("execute_migration") =>
        LET report == ret.value
            n == Len(report.steps)
            f == FirstFailing(call.outcomes)
        IN  /\ n = IF f = 0 THEN Len(migration_steps) ELSE f
            /\ \A i \in 1..n :
                  /\ report.steps[i].step = migration_steps[i]
                  /\ report.steps[i].success = (call.outcomes[migration_steps[i]] = "ok")
                  /\ report.steps[i].status =
                        IF report.steps[i].success THEN "completed" ELSE "failed"
                  /\ i < n => report.steps[i].success
            /\ report.status = "completed" <=> f = 0
            /\ (report.status = "rolled_back" /\ report.rollback_performed) <=> f > 2
            /\ (report.status = "failed" /\ ~report.rollback_performed) <=> f \in {1, 2}
            /\ report.status \in {"completed", "rolled_back", "failed"}
            /\ report.rollback_performed => report.status = "rolled_back"

\* A migration was rolled back when migrate_data_sources failed, its fifth
\* step; the step had stored rollback_data before it failed.
C27_Witness ==
    /\ Completed("execute_migration")
    /\ ret.value.status = "rolled_back"
    /\ ret.value.rollback_performed
    /\ Len(ret.value.steps) = 5
    /\ call.outcomes["backup_test_data"] = "ok"
    /\ call.outcomes["migrate_data_sources"] = "failed"
    /\ rollback_data # << >>

\* A migration completed with all seven steps.
C27_WitnessCompleted ==
    /\ Completed("execute_migration")
    /\ ret.value.status = "completed"
    /\ Len(ret.value.steps) = Len(migration_steps)
    /\ Len(ret.value.quality_reports) = 2

\* A migration failed at the backup, without a rollback.
C27_WitnessFailed ==
    /\ Completed("execute_migration")
    /\ ret.value.status = "failed"
    /\ ~ret.value.rollback_performed
    /\ Len(ret.value.steps) = 2


----------------------------------------------------------------------------
\* The data source switch (migration_strategy.py)

\* C28: whenever switch_to_real_data returns false, the current source is
\* the one that was current before the call and the call has appended no
\* entry to switch_history.
C28_SafeSwitching ==
    (Completed("switch_to_real_data") /\ ret.value = FALSE) =>
        /\ current_source = call.before.current_source
        /\ switch_history = call.before.switch_history

\* What the code does: with unavailable real sources nothing changes; after
\* a failed functionality test the current source is "test" whatever it was
\* before, the earlier source is only kept in fallback_source, and a
\* real-to-test entry is appended when the test sources are functional.
C28_FallsBackToTest ==
    (Completed("switch_to_real_data") /\ ret.value = FALSE) =>
        IF ~call.valid
        THEN data_source_switch = call.before
        ELSE /\ ~call.functional
             /\ current_source = "test"
             /\ fallback_source = call.before.current_source
             /\ switch_history =
                   IF call.test_functional
                   THEN Append(call.before.switch_history, HistoryEntry("real", "test"))
                   ELSE call.before.switch_history

\* A failed switch_to_real_data left "test" current where "real" was before.
C28_RealReplacedByTest ==
    ~ (/\ Completed("switch_to_real_data") /\ ret.value = FALSE
       /\ call.before.current_source = "real"
       /\ current_source = "test"
       /\ ~call.test_functional)


----------------------------------------------------------------------------
\* Rate limiting (data_quality.py)

\* The places in the log of the admitted calls of an API at instants after
\* from and up to to.
AdmittedIn(log, api_name, from, to) ==
    { i \in 1..Len(log) :
          /\ log[i].api_name = api_name /\ log[i].admitted
          /\ from < log[i].at /\ log[i].at <= to }

\* The instants admitted calls of an API that are less than window old at
\* the API's last call were made at, in call order.
RECURSIVE AdmittedTimes(_, _, _, _)
AdmittedTimes(log, api_name, window, last) ==
    IF log = << >> THEN << >>
    ELSE LET e == Head(log)
             rest == AdmittedTimes(Tail(log), api_name, window, last)
         IN  IF e.api_name = api_name /\ e.admitted /\ last - e.at < window
             THEN <<e.at>> \o rest ELSE rest

\* The instant of the last call for an API.
LastCall(log, api_name) ==
    LET calls == { i \in 1..Len(log) : log[i].api_name = api_name }
    IN  log[CHOOSE i \in calls : \A j \in calls : j <= i].at

\* Instants at which a trailing window is looked at: every call, the last
\* second a call is still within a window that began with it, and now.
WindowEnds(log) ==
    { log[i].at + d : i \in 1..Len(log), d \in {0, MinuteWindow - 1, HourWindow - 1} }
    \cup {now}

\* C29: for an API with configured limits the admitted calls within any
\* trailing 60 seconds are at most requests_per_minute and within any
\* trailing 3600 seconds at most requests_per_hour; the windows record the
\* admitted calls only; and a call is admitted exactly when both windows
\* are below their limits.
C29_RateLimiting ==
    call.op \in {"_check_rate_limit", "authenticate_api"} =>
        \A api_name \in DOMAIN rate_limits :
            LET limits == rate_limits[api_name]
            IN  /\ \A t \in WindowEnds(call.log) :
                      /\ Cardinality(AdmittedIn(call.log, api_name, t - MinuteWindow, t))
                            <= limits.requests_per_minute
                      /\ Cardinality(AdmittedIn(call.log, api_name, t - HourWindow, t))
                            <= limits.requests_per_hour
                /\ api_name \in DOMAIN rate_limit_trackers =>
                      LET last == LastCall(call.log, api_name)
                      IN  /\ rate_limit_trackers[api_name].minute_requests =
                                AdmittedTimes(call.log, api_name, MinuteWindow, last)
                          /\ rate_limit_trackers[api_name].hour_requests =
                                AdmittedTimes(call.log, api_name, HourWindow, last)
                /\ \A i \in 1..Len(call.log) :
                      call.log[i].api_name = api_name =>
                          LET earlier == SubSeq(call.log, 1, i - 1)
                              at == call.log[i].at
                          IN  call.log[i].admitted <=>
                                  /\ Cardinality(AdmittedIn(earlier, api_name,
                                         at - MinuteWindow, at)) < limits.requests_per_minute
                                  /\ Cardinality(AdmittedIn(earlier, api_name,
                                         at - HourWindow, at)) < limits.requests_per_hour

\* The last call was rejected by the hourly limit alone, and an earlier call
\* was admitted exactly 60 seconds after the calls that had filled the
\* minute.
C29_Witness ==
    /\ call.op = "_check_rate_limit" /\ call.api_name = "grants_api"
    /\ ret.value = FALSE
    /\ Len(rate_limit_trackers["grants_api"].minute_requests) < MaxPerMinute
    /\ Len(rate_limit_trackers["grants_api"].hour_requests) = MaxPerHour
    /\ \E i \in 1..Len(call.log) :
          /\ call.log[i].admitted /\ call.log[i].api_name = "grants_api"
          /\ Cardinality(AdmittedIn(call.log, "grants_api",
                 call.log[i].at - MinuteWindow - 1, call.log[i].at - MinuteWindow))
                = MaxPerMinute

====
